---- MODULE Spec2Model ----
(***************************************************************************)
(* A model of the dogelayer validator: worker reconciliation and metric    *)
(* aggregation (core/pool/metrics/dogelayer_proxy.py) and the evaluation,  *)
(* weight distribution and weight submission of                            *)
(* validator/validator.py.                                                 *)
(*                                                                         *)
(* Strings with "." delimiters (pool worker ids) are sequences of tokens:  *)
(* "idA" is <<"idA">>, "idA.rig1" is <<"idA", "rig1">>.  A Python dict is  *)
(* a function whose DOMAIN is its key set.  Python floats are exact        *)
(* rationals [n, d] in lowest terms; rounding error is not modelled.       *)
(***************************************************************************)
EXTENDS Integers, Sequences, FiniteSets, TLC

VARIABLES
    \* ---- get_metrics_timerange (dogelayer_proxy.py) ----
    hotkeys,                  \* list of identity keys (self.hotkeys)
    block_at_registration,    \* parallel list of registration blocks
    all_workers,              \* the pool's worker snapshot: worker id -> record
    hotkeys_to_workers,       \* dict: hotkey -> list of worker ids
    worker_ids_to_hotkey_idx, \* dict: worker id -> index into hotkeys
    metrics,                  \* the list of ProxyMetrics being returned
    mpc,                      \* position inside get_metrics_timerange
    i                         \* index of the first loop (1-based)

mvars == <<hotkeys, block_at_registration, all_workers, hotkeys_to_workers,
           worker_ids_to_hotkey_idx, metrics, mpc, i>>

VARIABLES
    \* ---- DogeLayerProxyValidator (validator.py) ----
    scores,                   \* self.scores, one accumulator per uid
    last_update,              \* self.last_update: block of the last submission
    current_block,            \* self.current_block
    burn_uid,                 \* self.burn_uid (0-based uid)
    payout_factor,            \* PAYOUT_FACTOR of dogelayer.core.constants
    swpc,                     \* position inside set_weights
    weights,                  \* the local 'weights' of set_weights
    salt,                     \* the local 'salt' of the commit-reveal path
    chain_calls,              \* chain calls made by the current set_weights call
    result,                   \* what set_weights returned (or raised)
    entry                     \* scores, last_update and path at entry to the call

wvars == <<scores, last_update, current_block, burn_uid, payout_factor, swpc,
           weights, salt, chain_calls, result, entry>>

VARIABLES
    \* ---- evaluate_miner_share_value (validator.py) ----
    last_evaluation_timestamp, \* self.last_evaluation_timestamp: <<>> is None
    clock,                    \* the wall clock, time.time()
    window,                   \* start_time, end_time of the latest evaluation
    evals,                    \* number of evaluations made
    eval_result               \* how the latest evaluation ended

evars == <<last_evaluation_timestamp, clock, window, evals, eval_result>>

VARIABLES
    \* ---- run, save_state, restore_state_and_evaluate (validator.py) ----
    rpc,                      \* position inside run
    stored,                   \* what self.storage holds: <<>> is no state
    next_sync_block,          \* the local 'next_sync_block' of run
    tempo,                    \* self.tempo
    blocks_since_last_weights, \* the local 'blocks_since_last_weights' of run
    evaluated_until,          \* end_time of the latest evaluation that completed,
                              \* over every run on this storage: <<>> is none
    coldkeys,                 \* self.metagraph.coldkeys
    restored,                 \* what the latest restore_state_and_evaluate did
    salts_used,               \* the salts of the commits made so far
    cycles,                   \* number of loop iterations begun
    restarts                  \* number of times the process was restarted

rvars == <<rpc, stored, next_sync_block, tempo, blocks_since_last_weights,
          evaluated_until,
           coldkeys, restored, salts_used, cycles, restarts>>

VARIABLES
    \* ---- ProxyPoolAPI.get_workers_timerange, ProxyPool (core/pool/proxy),
    \* ---- get_current_difficulty (core/pricing/network_stats.py) ----
    ppc,                      \* position inside get_miner_contributions_timerange
    api_data,                 \* the JSON body the proxy serves for the window
    api_tries,                \* tries of get_workers_timerange made by backoff
    api_result,               \* what get_workers_timerange returned (or raised)
    pool_result,              \* what get_miner_contributions_timerange returned
    difficulty_cache,         \* _difficulty_cache: coin argument -> value
    difficulty_calls,         \* number of get_current_difficulty calls made
    difficulty_call           \* argument, fetch outcome and result of the latest

pvars == <<ppc, api_data, api_tries, api_result, pool_result,
           difficulty_cache, difficulty_calls, difficulty_call>>

vars == <<mvars, wvars, evars, rvars, pvars>>

-----------------------------------------------------------------------------
(* Bounds of the model.                                                    *)

MaxHotkeys == 2
MaxWorkers == 3
MaxUids == 3
MaxBlocks == 3
MaxEvals == 3
MaxCycles == 2
MaxRestarts == 1

\* Program constants.
HourSeconds == 3600
MinWindow == 1800
MaxRange == 86400
FallbackPrice == 75

-----------------------------------------------------------------------------
(* Python dict helpers.                                                    *)

EmptyDict == [k \in {} |-> 0]

Put(d, k, v) == [x \in DOMAIN d \cup {k} |-> IF x = k THEN v ELSE d[x]]

Del(d, k) == [x \in DOMAIN d \ {k} |-> d[x]]

\* dict.get(key, default)
Get(d, k, default) == IF k \in DOMAIN d THEN d[k] ELSE default

-----------------------------------------------------------------------------
(* Exact rationals standing for Python floats: [n |-> Int, d |-> Nat > 0]  *)
(* in lowest terms, so that equal values are equal records.                *)

Abs(x) == IF x < 0 THEN -x ELSE x

RECURSIVE GCD(_, _)
GCD(a, b) == IF b = 0 THEN a ELSE GCD(b, a % b)

Rat(n, d) ==
    LET g == GCD(Abs(n), Abs(d))
        sgn == IF d < 0 THEN -1 ELSE 1
    IN [n |-> (sgn * n) \div g, d |-> (sgn * d) \div g]

RInt(k) == [n |-> k, d |-> 1]
RAdd(a, b) == Rat(a.n * b.d + b.n * a.d, a.d * b.d)
RSub(a, b) == Rat(a.n * b.d - b.n * a.d, a.d * b.d)
RMul(a, b) == Rat(a.n * b.n, a.d * b.d)
\* a / b for b # 0 (Python raises ZeroDivisionError on b = 0).
RDiv(a, b) == Rat(a.n * b.d, a.d * b.n)
RLess(a, b) == a.n * b.d < b.n * a.d
RLeq(a, b) == a.n * b.d <= b.n * a.d
RMax(a, b) == IF RLess(a, b) THEN b ELSE a
RZero == RInt(0)
ROne == RInt(1)

\* sum(list) of Python, left to right.
RECURSIVE RSum(_)
RSum(s) == IF s = <<>> THEN RZero ELSE RAdd(RSum(SubSeq(s, 1, Len(s) - 1)), s[Len(s)])

-----------------------------------------------------------------------------
(* Input universes.                                                        *)

Identities == {"idA", "idB", "idC"}

Blocks == {1, 2}

\* Every worker id the pool may report, in the order the snapshot dict
\* would iterate over them.
WorkerOrder ==
    << <<"idA">>, <<"idA", "rig1">>, <<"idA", "rig2">>, <<"idB">>,
       <<"idB", "rig1">>, <<"idA", "rig1", "x">>, <<"idX", "rig1">> >>

WorkerIds == {WorkerOrder[k] : k \in 1..Len(WorkerOrder)}

\* Worker records as the pool reports them; fields may be absent and a
\* record may be empty.
WorkerRecords ==
    { EmptyDict,
      [share_value |-> 5, hashrate |-> 2, shares |-> 3],
      [share_value |-> 5],
      [share_value |-> 0, hashrate |-> 1, shares |-> 1] }

\* Lists without repetition: the registry holds each hotkey once.
RECURSIVE DistinctSeqs(_, _)
DistinctSeqs(S, n) ==
    IF n = 0 THEN {<<>>}
    ELSE LET shorter == DistinctSeqs(S, n - 1)
         IN shorter \cup
            {Append(s, x) : s \in {t \in shorter : Len(t) = n - 1}, x \in S}

NoRepeat(s) == \A a, b \in 1..Len(s) : a # b => s[a] # s[b]

HotkeyLists == {s \in DistinctSeqs(Identities, MaxHotkeys) : NoRepeat(s)}

Snapshots ==
    UNION {[ids -> WorkerRecords] :
              ids \in {w \in SUBSET WorkerIds : Cardinality(w) <= MaxWorkers}}

-----------------------------------------------------------------------------
(* get_metrics_timerange: the identity-to-workers map (lines 95-140).      *)

\* '"." in worker_id'
HasDot(worker_id) == Len(worker_id) > 1

\* 'worker_id.split(".")[0]'
SplitFirst(worker_id) == worker_id[1]

\* A suffix test that forgets to compare the prefix with the hotkey.
SuffixMatchesAnyDotted(worker_id, hotkey) == HasDot(worker_id)

\* The suffix test of lines 112-115.
SuffixMatches(worker_id, hotkey) ==
    HasDot(worker_id) /\ SplitFirst(worker_id) = hotkey

\* A matching in which the exact match ends the search ("elif" for the
\* second "if"): the prefixed workers are looked for only without it.
MatchWorkersExactFirst(hotkey, aw) ==
    IF <<hotkey>> \in DOMAIN aw THEN << <<hotkey>> >>
    ELSE SelectSeq(WorkerOrder,
                   LAMBDA w : w \in DOMAIN aw /\ SuffixMatches(w, hotkey))

\* worker_ids of one hotkey (lines 102-117): the exact match first, then
\* every "hotkey.xxx" key in the snapshot's iteration order.
MatchWorkers(hotkey, aw) ==
    (IF <<hotkey>> \in DOMAIN aw THEN << <<hotkey>> >> ELSE <<>>)
    \o SelectSeq(WorkerOrder,
                 LAMBDA w : w \in DOMAIN aw /\ SuffixMatches(w, hotkey))

\* One iteration of the loop of lines 101-140 on the two dicts.
MapIter(st, idx, hks, bars, aw) ==
    LET hotkey == hks[idx]
        worker_ids == MatchWorkers(hotkey, aw)
    IN IF Len(worker_ids) > 1
       THEN [st EXCEPT !.h2w = Put(@, hotkey, worker_ids)]
       ELSE IF Len(worker_ids) = 1
       THEN LET worker_id == worker_ids[1]
            IN IF worker_id \in DOMAIN st.w2i
               THEN LET other_hotkey_idx == st.w2i[worker_id]
                    IN IF bars[idx] < bars[other_hotkey_idx]
                       THEN [h2w |-> Put(Del(st.h2w, hks[other_hotkey_idx]),
                                         hotkey, <<worker_id>>),
                             w2i |-> Put(st.w2i, worker_id, idx)]
                       ELSE st
               ELSE [h2w |-> Put(st.h2w, hotkey, <<worker_id>>),
                     w2i |-> Put(st.w2i, worker_id, idx)]
       ELSE st

\* The whole first loop, iterations 1..n.
RECURSIVE BuildMap(_, _, _, _)
BuildMap(n, hks, bars, aw) ==
    IF n = 0 THEN [h2w |-> EmptyDict, w2i |-> EmptyDict]
    ELSE MapIter(BuildMap(n - 1, hks, bars, aw), n, hks, bars, aw)

-----------------------------------------------------------------------------
(* get_metrics_timerange: aggregation (lines 142-186).                     *)

ZeroMetric(hotkey) ==
    [hotkey |-> hotkey, hashrate |-> 0, shares |-> 0, share_value |-> 0]

RECURSIVE Accumulate(_, _, _, _)

\* An accumulation that assigns ("=") where the code adds ("+=").
AccumulateOverwrite(n, worker_ids, aw, hotkey) ==
    IF n = 0 THEN ZeroMetric(hotkey)
    ELSE LET acc == Accumulate(n - 1, worker_ids, aw, hotkey)
             worker_data == Get(aw, worker_ids[n], EmptyDict)
         IN IF worker_data # EmptyDict
            THEN [hotkey |-> hotkey,
                  hashrate |-> Get(worker_data, "hashrate", 0),
                  shares |-> Get(worker_data, "shares", 0),
                  share_value |-> Get(worker_data, "share_value", 0)]
            ELSE acc

\* Lines 155-169 for the first n ids of worker_ids: an empty record is
\* skipped, an absent field counts 0.
Accumulate(n, worker_ids, aw, hotkey) ==
    IF n = 0 THEN ZeroMetric(hotkey)
    ELSE LET acc == Accumulate(n - 1, worker_ids, aw, hotkey)
             worker_data == Get(aw, worker_ids[n], EmptyDict)
         IN IF worker_data # EmptyDict
            THEN [hotkey |-> hotkey,
                  hashrate |-> acc.hashrate + Get(worker_data, "hashrate", 0),
                  shares |-> acc.shares + Get(worker_data, "shares", 0),
                  share_value |->
                      acc.share_value + Get(worker_data, "share_value", 0)]
            ELSE acc

\* A second loop whose lookup defaults to every worker of the snapshot
\* where the code gets None for an unmapped hotkey.
MetricForDefaultsToAllWorkers(hotkey, h2w, aw) ==
    LET worker_ids ==
            Get(h2w, hotkey, SelectSeq(WorkerOrder, LAMBDA w : w \in DOMAIN aw))
    IN Accumulate(Len(worker_ids), worker_ids, aw, hotkey)

\* One iteration of the loop of lines 142-186.
MetricFor(hotkey, h2w, aw) ==
    IF hotkey \notin DOMAIN h2w THEN ZeroMetric(hotkey)
    ELSE Accumulate(Len(h2w[hotkey]), h2w[hotkey], aw, hotkey)

\* The function as a whole: the list of metrics it returns.
GetMetricsTimerange(hks, bars, aw) ==
    LET st == BuildMap(Len(hks), hks, bars, aw)
    IN [k \in 1..Len(hks) |-> MetricFor(hks[k], st.h2w, aw)]

-----------------------------------------------------------------------------
(* The call of get_metrics_timerange, one loop iteration per step.         *)

NoResult == [kind |-> "none"]

\* None and a value of an Optional[int].
None == <<>>
Some(t) == <<t>>

\* The evaluation variables while evaluate_miner_share_value is not studied.
EIdle ==
    /\ last_evaluation_timestamp = None
    /\ clock = 0
    /\ window = NoResult
    /\ evals = 0
    /\ eval_result = NoResult

\* The variables of the pool client and of the difficulty provider while
\* they are not studied.
PIdle ==
    /\ ppc = "off"
    /\ api_data = EmptyDict
    /\ api_tries = 0
    /\ api_result = NoResult
    /\ pool_result = NoResult
    /\ difficulty_cache = EmptyDict
    /\ difficulty_calls = 0
    /\ difficulty_call = NoResult

\* The variables of run while run is not studied.
RIdle ==
    /\ rpc = "off"
    /\ stored = None
    /\ next_sync_block = 0
    /\ tempo = 2
    /\ blocks_since_last_weights = 0
    /\ evaluated_until = None
    /\ coldkeys = <<>>
    /\ restored = NoResult
    /\ salts_used = <<>>
    /\ cycles = 0
    /\ restarts = 0

\* The validator's variables while only get_metrics_timerange is studied.
WIdle ==
    /\ scores = <<>>
    /\ last_update = 0
    /\ current_block = 0
    /\ burn_uid = 0
    /\ payout_factor = ROne
    /\ swpc = "idle"
    /\ weights = <<>>
    /\ salt = 0
    /\ chain_calls = <<>>
    /\ result = NoResult
    /\ entry = NoResult

InitMetrics ==
    /\ hotkeys \in HotkeyLists
    /\ block_at_registration \in [1..Len(hotkeys) -> Blocks]
    /\ all_workers \in Snapshots
    /\ hotkeys_to_workers = EmptyDict
    /\ worker_ids_to_hotkey_idx = EmptyDict
    /\ metrics = <<>>
    /\ mpc = "map"
    /\ i = 1
    /\ WIdle
    /\ EIdle
    /\ RIdle
    /\ PIdle

\* Lines 101-140, one hotkey.
MapHotkey ==
    /\ mpc = "map"
    /\ i <= Len(hotkeys)
    /\ LET st == MapIter([h2w |-> hotkeys_to_workers,
                          w2i |-> worker_ids_to_hotkey_idx],
                         i, hotkeys, block_at_registration, all_workers)
       IN /\ hotkeys_to_workers' = st.h2w
          /\ worker_ids_to_hotkey_idx' = st.w2i
    /\ i' = i + 1
    /\ UNCHANGED <<hotkeys, block_at_registration, all_workers, metrics, mpc>>
    /\ UNCHANGED <<wvars, evars, rvars, pvars>>

\* The first loop ends.
MapDone ==
    /\ mpc = "map"
    /\ i > Len(hotkeys)
    /\ mpc' = "aggregate"
    /\ UNCHANGED <<hotkeys, block_at_registration, all_workers,
                   hotkeys_to_workers, worker_ids_to_hotkey_idx, metrics, i>>
    /\ UNCHANGED <<wvars, evars, rvars, pvars>>

\* Lines 142-186, one hotkey.
AggregateHotkey ==
    /\ mpc = "aggregate"
    /\ Len(metrics) < Len(hotkeys)
    /\ metrics' = Append(metrics,
                         MetricFor(hotkeys[Len(metrics) + 1],
                                   hotkeys_to_workers, all_workers))
    /\ UNCHANGED <<hotkeys, block_at_registration, all_workers,
                   hotkeys_to_workers, worker_ids_to_hotkey_idx, mpc, i>>
    /\ UNCHANGED <<wvars, evars, rvars, pvars>>

\* Line 188.
ReturnMetrics ==
    /\ mpc = "aggregate"
    /\ Len(metrics) = Len(hotkeys)
    /\ mpc' = "returned"
    /\ UNCHANGED <<hotkeys, block_at_registration, all_workers,
                   hotkeys_to_workers, worker_ids_to_hotkey_idx, metrics, i>>
    /\ UNCHANGED <<wvars, evars, rvars, pvars>>

NextMetrics == MapHotkey \/ MapDone \/ AggregateHotkey \/ ReturnMetrics

SpecMetrics == InitMetrics /\ [][NextMetrics]_vars

-----------------------------------------------------------------------------
(* Properties of get_metrics_timerange.                                    *)

Range(s) == {s[k] : k \in 1..Len(s)}

RECURSIVE SetSum(_, _, _)
\* The sum of field f (0 when absent) over the records of the ids in S.
SetSum(S, aw, f) ==
    IF S = {} THEN 0
    ELSE LET w == CHOOSE x \in S : TRUE
         IN Get(aw[w], f, 0) + SetSum(S \ {w}, aw, f)

RECURSIVE SeqSum(_, _)
SeqSum(s, f) == IF s = <<>> THEN 0 ELSE s[1][f] + SeqSum(Tail(s), f)

\* The worker set an identity resolved to (empty when it is unmapped).
ResolvedSet(hotkey) ==
    IF hotkey \in DOMAIN hotkeys_to_workers
    THEN Range(hotkeys_to_workers[hotkey]) ELSE {}

\* C1: while and after the identity-to-workers map is built, no worker id
\* is in the worker sets of two different identities, and the metrics
\* returned count no worker record twice: the share values of all metrics
\* add up to the share values of the resolved workers, each taken once.
C1_NoWorkerClaimedTwice ==
    /\ \A h1, h2 \in DOMAIN hotkeys_to_workers :
          h1 # h2 => ResolvedSet(h1) \cap ResolvedSet(h2) = {}
    /\ mpc = "returned" =>
          SeqSum(metrics, "share_value") =
             SetSum(UNION {ResolvedSet(h) : h \in DOMAIN hotkeys_to_workers},
                    all_workers, "share_value")

\* Two identities are mapped, one of them to several workers, and the
\* metrics have been returned.
C1_Witness ==
    /\ mpc = "returned"
    /\ \E h1, h2 \in DOMAIN hotkeys_to_workers :
          /\ h1 # h2
          /\ Len(hotkeys_to_workers[h1]) > 1
          /\ SetSum(ResolvedSet(h1), all_workers, "share_value") > 0
          /\ SetSum(ResolvedSet(h2), all_workers, "share_value") > 0

\* The duplicate-worker branch of lines 127-136 is never entered: with
\* distinct hotkeys the single worker of a hotkey is never in
\* worker_ids_to_hotkey_idx already.
DuplicateBranchNeverTaken ==
    (mpc = "map" /\ i <= Len(hotkeys)) =>
        LET worker_ids == MatchWorkers(hotkeys[i], all_workers)
        IN Len(worker_ids) = 1 =>
              worker_ids[1] \notin DOMAIN worker_ids_to_hotkey_idx

\* C3: every metric returned carries the sums of share_value, hashrate and
\* shares over the records of its identity's resolved worker set; with
\* "idA.rig1" and "idA.rig2" both reporting share_value 5 and no other
\* worker of idA, idA's share_value is 10.
C3_MetricIsSumOverWorkers ==
    mpc = "returned" =>
        /\ Len(metrics) = Len(hotkeys)
        /\ \A k \in 1..Len(hotkeys) :
              LET S == ResolvedSet(hotkeys[k])
              IN /\ metrics[k].hotkey = hotkeys[k]
                 /\ metrics[k].share_value = SetSum(S, all_workers, "share_value")
                 /\ metrics[k].hashrate = SetSum(S, all_workers, "hashrate")
                 /\ metrics[k].shares = SetSum(S, all_workers, "shares")
        /\ \A k \in 1..Len(hotkeys) :
              ( /\ hotkeys[k] = "idA"
                /\ {w \in DOMAIN all_workers : w = <<"idA">> \/ w[1] = "idA"}
                      = {<<"idA", "rig1">>, <<"idA", "rig2">>}
                /\ Get(all_workers[<<"idA", "rig1">>], "share_value", 0) = 5
                /\ Get(all_workers[<<"idA", "rig2">>], "share_value", 0) = 5 )
              => metrics[k].share_value = 10

\* idA has the two rigs of the scenario and its metric has been returned.
C3_Witness ==
    /\ mpc = "returned"
    /\ \E k \in 1..Len(hotkeys) :
          /\ hotkeys[k] = "idA"
          /\ ResolvedSet("idA") = {<<"idA", "rig1">>, <<"idA", "rig2">>}
          /\ metrics[k].share_value = 10
          /\ metrics[k].hashrate = 4

-----------------------------------------------------------------------------
(* WeightDistributor: calculate_weights_distribution (lines 323-350).      *)

\* value_to_dist of lines 330-337.  `rate' stands for the product
\* (1 - OWNER_TAKE) * SPLIT_WITH_MINERS * (own stake / total stake) *
\* alpha_price, all of it read from the chain, the price API and
\* dogelayer.core.constants.
ValueToDist(blocks_to_set_for, rate) == RMul(RInt(blocks_to_set_for), rate)

\* Branch 1 dividing by total_value, where the code divides by
\* scaled_total_value.
RawWeightsDivTotal(sc, total_value, value_to_dist, pf) ==
    LET scaled_total_value == RMul(total_value, pf)
    IN IF RLess(value_to_dist, scaled_total_value)
       THEN [k \in 1..Len(sc) |-> RDiv(sc[k], total_value)]
       ELSE LET weights_to_dist == RDiv(scaled_total_value, value_to_dist)
            IN [k \in 1..Len(sc) |->
                   RMul(RDiv(sc[k], total_value), weights_to_dist)]

\* Branch 2 forgetting the factor weights_to_dist.
RawWeightsNoScale(sc, total_value, value_to_dist, pf) ==
    LET scaled_total_value == RMul(total_value, pf)
    IN IF RLess(value_to_dist, scaled_total_value)
       THEN [k \in 1..Len(sc) |-> RDiv(sc[k], scaled_total_value)]
       ELSE [k \in 1..Len(sc) |-> RDiv(sc[k], total_value)]

\* Lines 338-345: the weights before the burn adjustment.
RawWeights(sc, total_value, value_to_dist, pf) ==
    LET scaled_total_value == RMul(total_value, pf)
    IN IF RLess(value_to_dist, scaled_total_value)
       THEN [k \in 1..Len(sc) |-> RDiv(sc[k], scaled_total_value)]
       ELSE LET weights_to_dist == RDiv(scaled_total_value, value_to_dist)
            IN [k \in 1..Len(sc) |->
                   RMul(RDiv(sc[k], total_value), weights_to_dist)]

\* A burn adjustment that is forgotten.
BurnAdjustMissing(w, burn) == w

\* Lines 347-349: the shortfall goes to the burn uid (0-based).
BurnAdjust(w, burn) ==
    LET remaining == RMax(RZero, RSub(ROne, RSum(w)))
    IN IF RLess(RZero, remaining)
       THEN [w EXCEPT ![burn + 1] = RAdd(@, remaining)]
       ELSE w

CalculateWeightsDistribution(sc, total_value, value_to_dist, pf, burn) ==
    BurnAdjust(RawWeights(sc, total_value, value_to_dist, pf), burn)

-----------------------------------------------------------------------------
(* CommitRevealSubmitter: set_weights and its two paths (lines 352-530).   *)

\* Burn vector with the 1.0 put on uid 0 whatever the burn uid is.
BurnVectorFirstUid(n, burn) ==
    [k \in 1..n |-> IF k = 1 THEN ROne ELSE RZero]

\* Lines 438-439.
BurnVector(n, burn) ==
    [k \in 1..n |-> IF k = burn + 1 THEN ROne ELSE RZero]

\* Lines 435-441: the weights, and whether calculate_weights_distribution
\* was called for them.
SetWeightsVector(sc, n, value_to_dist, pf, burn) ==
    LET total_value == RSum(sc)
    IN IF total_value = RZero
       THEN [weights |-> BurnVector(n, burn), calculated |-> FALSE]
       ELSE [weights |-> CalculateWeightsDistribution(
                             sc, total_value, value_to_dist, pf, burn),
             calculated |-> TRUE]

\* What the SDK query of line 356 may give, and the btcli fallback.
SdkOutcomes == {"true", "false", "missing", "raise"}
FallbackOutcomes == {"true", "false", "notlisted", "fail"}

\* Lines 372-413.
GetCommitRevealStatusFallback(fallback) == fallback = "true"

\* The queries of lines 352-413 got an answer: the hyperparameter object had
\* the attribute, or the SDK query raised and btcli listed the parameter.
StatusFound(sdk, fallback) ==
    IF sdk = "raise" THEN fallback \in {"true", "false"}
    ELSE sdk \in {"true", "false"}

\* A status that takes a missing attribute for an enabled commit-reveal.
GetCommitRevealStatusMissingEnables(sdk, fallback) ==
    IF sdk = "raise" THEN GetCommitRevealStatusFallback(fallback)
    ELSE sdk \in {"true", "missing"}

\* Lines 352-370.
GetCommitRevealStatus(sdk, fallback) ==
    IF sdk = "raise" THEN GetCommitRevealStatusFallback(fallback)
    ELSE sdk = "true"

\* Every answer line 444 can get, over all outcomes of the two queries,
\* with whether the queries found the status.
StatusAnswers ==
    {[enabled |-> GetCommitRevealStatus(sdk, fallback),
      found |-> StatusFound(sdk, fallback)] :
        sdk \in SdkOutcomes, fallback \in FallbackOutcomes}

\* Every answer line 444 can get, over all outcomes of the two queries.
CommitRevealAnswers ==
    {GetCommitRevealStatus(sdk, fallback) :
        sdk \in SdkOutcomes, fallback \in FallbackOutcomes}

\* uids = list(range(len(self.hotkeys)))
Uids(n) == [k \in 1..n |-> k - 1]

Zeros(n) == [k \in 1..n |-> RZero]

\* A successful submission that leaves the last-submission marker alone.
SubmitOutcomeKeepsMarker(sc, lu, cb, n, ok) ==
    IF ok THEN [scores |-> Zeros(n), last_update |-> lu]
    ELSE [scores |-> sc, last_update |-> lu]

\* A result test that is inverted: the reset happens on failure.
SubmitOutcomeResetsOnFailure(sc, lu, cb, n, ok) ==
    IF ok THEN [scores |-> sc, last_update |-> lu]
    ELSE [scores |-> Zeros(n), last_update |-> cb]

\* A submission that resets the scores whether or not the chain accepted.
SubmitOutcomeAlwaysResets(sc, lu, cb, n, ok) ==
    [scores |-> Zeros(n), last_update |-> cb]

\* Lines 466-476 and 521-530: what a direct submission or a reveal does to
\* the scores and the last-submission marker.
\* A successful submission that empties the score list.
SubmitOutcomeClearsScores(sc, lu, cb, n, ok) ==
    IF ok THEN [scores |-> <<>>, last_update |-> cb]
    ELSE [scores |-> sc, last_update |-> lu]

SubmitOutcome(sc, lu, cb, n, ok) ==
    IF ok THEN [scores |-> Zeros(n), last_update |-> cb]
    ELSE [scores |-> sc, last_update |-> lu]

\* A commit whose failure is not looked at.
CommitOutcomeIgnoresFailure(ok) == "waiting"

\* Lines 501-509: after the commit, return on failure, else sleep.
CommitOutcome(ok) == IF ok THEN "waiting" ELSE "done"

\* A path choice that never takes the commit-reveal path.
ChoosePathAlwaysDirect(commit_reveal_enabled) == "direct"

\* Lines 447-450: the path set_weights takes for the answer of line 444.
ChoosePath(commit_reveal_enabled) ==
    IF commit_reveal_enabled THEN "commit_reveal" ELSE "direct"

\* A reveal that sends a salt of its own instead of the commit's.
RevealCallOtherSalt(n, w, s, ok) ==
    [op |-> "reveal_weights", uids |-> Uids(n), weights |-> w,
     salt |-> s + 1, ok |-> ok]

\* Lines 513-519: the reveal_weights call, made with the locals uids,
\* weights and salt that the commit of lines 493-499 was made with.
RevealCall(n, w, s, ok) ==
    [op |-> "reveal_weights", uids |-> Uids(n), weights |-> w,
     salt |-> s, ok |-> ok]

Returned(ok) == [kind |-> "returned", ok |-> ok]
Raised == [kind |-> "raised"]

\* Input universes of set_weights.
UidHotkeys == <<"idA", "idB", "idC", "idD", "idE">>
ScoreValues == {RZero, RInt(10), RInt(30), Rat(1, 3)}
Rates == {RZero, RInt(10), RInt(50)}
Salts == {1, 2}
\* PAYOUT_FACTOR: a positive constant of dogelayer.core.constants.  The
\* weight vector's "sum <= 1" needs it to be at least 1.
PayoutFactors == {ROne, Rat(21, 20), RInt(2)}

\* The metrics variables while only set_weights is studied.
MIdle ==
    /\ block_at_registration = [k \in 1..Len(hotkeys) |-> k]
    /\ all_workers = EmptyDict
    /\ hotkeys_to_workers = EmptyDict
    /\ worker_ids_to_hotkey_idx = EmptyDict
    /\ metrics = <<>>
    /\ mpc = "idle"
    /\ i = 0

InitWeights ==
    /\ \E n \in 1..MaxUids :
          /\ hotkeys = SubSeq(UidHotkeys, 1, n)
          /\ scores \in [1..n -> ScoreValues]
          /\ burn_uid \in 0..(n - 1)
    /\ MIdle
    /\ payout_factor \in PayoutFactors
    /\ last_update = 0
    /\ current_block \in 0..MaxBlocks
    /\ swpc = "idle"
    /\ weights = <<>>
    /\ salt = 0
    /\ chain_calls = <<>>
    /\ result = NoResult
    /\ entry = NoResult
    /\ EIdle
    /\ RIdle
    /\ PIdle

EntryRecord(value_to_dist, calculated, commit_reveal, status_found) ==
    [scores |-> scores, last_update |-> last_update,
     total_value |-> RSum(scores), value_to_dist |-> value_to_dist,
     calculated |-> calculated, commit_reveal |-> commit_reveal,
     status_found |-> status_found]

\* set_weights when the token price is unavailable and the scores are not
\* all zero: line 327 multiplies by None and the TypeError leaves the call.
SetWeightsRaises ==
    /\ swpc = "idle"
    /\ RSum(scores) # RZero
    /\ swpc' = "done"
    /\ result' = Raised
    /\ entry' = EntryRecord(RZero, TRUE, FALSE, TRUE)
    /\ UNCHANGED <<scores, last_update, current_block, burn_uid,
                   payout_factor, weights, salt, chain_calls>>
    /\ UNCHANGED <<mvars, evars, rvars, pvars>>

\* set_weights on the direct path (lines 434-450, 452-476).
SetWeightsDirect ==
    /\ swpc = "idle"
    /\ \E rate \in Rates, status \in StatusAnswers, ok \in BOOLEAN :
          LET n == Len(hotkeys)
              commit_reveal_enabled == status.enabled
              value_to_dist == ValueToDist(current_block - last_update, rate)
              sw == SetWeightsVector(scores, n, value_to_dist,
                                     payout_factor, burn_uid)
              out == SubmitOutcome(scores, last_update, current_block, n, ok)
          IN /\ ChoosePath(commit_reveal_enabled) = "direct"
             /\ weights' = sw.weights
             /\ entry' = EntryRecord(value_to_dist, sw.calculated,
                                     commit_reveal_enabled, status.found)
             /\ chain_calls' = <<[op |-> "set_weights", uids |-> Uids(n),
                                  weights |-> sw.weights, salt |-> 0,
                                  ok |-> ok]>>
             /\ scores' = out.scores
             /\ last_update' = out.last_update
             /\ result' = Returned(ok)
    /\ swpc' = "done"
    /\ UNCHANGED <<current_block, burn_uid, payout_factor, salt>>
    /\ UNCHANGED <<mvars, evars, rvars, pvars>>

\* set_weights on the commit-reveal path up to the sleep (lines 434-450,
\* 478-509).
SetWeightsCommit ==
    /\ swpc = "idle"
    /\ \E rate \in Rates, status \in StatusAnswers, s \in Salts,
          ok \in BOOLEAN :
          LET n == Len(hotkeys)
              commit_reveal_enabled == status.enabled
              value_to_dist == ValueToDist(current_block - last_update, rate)
              sw == SetWeightsVector(scores, n, value_to_dist,
                                     payout_factor, burn_uid)
          IN /\ ChoosePath(commit_reveal_enabled) = "commit_reveal"
             /\ weights' = sw.weights
             /\ salt' = s
             /\ salts_used' = Append(salts_used, s)
             /\ entry' = EntryRecord(value_to_dist, sw.calculated,
                                     commit_reveal_enabled, status.found)
             /\ chain_calls' = <<[op |-> "commit_weights", uids |-> Uids(n),
                                  weights |-> sw.weights, salt |-> s,
                                  ok |-> ok]>>
             /\ swpc' = CommitOutcome(ok)
             /\ result' = IF swpc' = "done" THEN Returned(FALSE) ELSE NoResult
    /\ UNCHANGED <<scores, last_update, current_block, burn_uid,
                   payout_factor>>
    /\ UNCHANGED <<rpc, stored, next_sync_block, tempo, blocks_since_last_weights,
                   evaluated_until,
                   coldkeys, restored,
                   cycles, restarts>>
    /\ UNCHANGED <<mvars, evars, pvars>>

\* The rest of the commit-reveal path, after the sleep (lines 511-530).
RevealWeights ==
    /\ swpc = "waiting"
    /\ \E ok \in BOOLEAN :
          LET n == Len(hotkeys)
              out == SubmitOutcome(scores, last_update, current_block, n, ok)
          IN /\ chain_calls' = Append(chain_calls,
                                      RevealCall(n, weights, salt, ok))
             /\ scores' = out.scores
             /\ last_update' = out.last_update
             /\ result' = Returned(ok)
    /\ swpc' = "done"
    /\ UNCHANGED <<current_block, burn_uid, payout_factor, weights, salt,
                   entry>>
    /\ UNCHANGED <<mvars, evars, rvars, pvars>>

NextWeights ==
    SetWeightsRaises \/ SetWeightsDirect \/ SetWeightsCommit \/ RevealWeights

SpecWeights == InitWeights /\ [][NextWeights]_vars

-----------------------------------------------------------------------------
(* Properties of set_weights.                                              *)

Calls == 1..Len(chain_calls)

\* total_value * PAYOUT_FACTOR of the current call.
ScaledTotal == RMul(entry.total_value, payout_factor)

\* The call computed its weights in the branch "scores exceed the budget".
OverBudget ==
    /\ swpc # "idle"
    /\ entry.calculated
    /\ RLess(entry.value_to_dist, ScaledTotal)

\* The call computed its weights in the branch "budget covers the scores".
WithinBudget ==
    /\ swpc # "idle"
    /\ entry.calculated
    /\ RLeq(ScaledTotal, entry.value_to_dist)

\* a = b * c / d for rationals, by cross-multiplication on the integers.
IsProductOver(a, b, c, d) ==
    a.n * b.d * c.d * d.n = b.n * c.n * d.d * a.d

\* C4: every weight vector handed to the chain by set_weights (direct,
\* commit or reveal) has one entry per hotkey, sums to exactly 1 and has
\* all its entries between 0 and 1, for every non-negative score vector,
\* the all-zero one included.
C4_SubmittedWeightsNormalized ==
    \A c \in Calls :
        LET w == chain_calls[c].weights
        IN /\ Len(w) = Len(hotkeys)
           /\ RSum(w) = ROne
           /\ \A k \in 1..Len(w) : RLeq(RZero, w[k]) /\ RLeq(w[k], ROne)

\* A vector was submitted whose burn entry received a shortfall and in
\* which some other uid has a positive weight.
C4_Witness ==
    /\ swpc = "done"
    /\ Len(chain_calls) > 0
    /\ entry.calculated
    /\ RLess(RSum(RawWeights(entry.scores, entry.total_value,
                             entry.value_to_dist, payout_factor)), ROne)
    /\ \E k \in 1..Len(hotkeys) :
          k # burn_uid + 1 /\ RLess(RZero, chain_calls[1].weights[k])

\* C5: a set_weights call entered with sum(scores) = 0 does not call
\* calculate_weights_distribution, does not raise, and every vector it
\* hands to the chain is 1 at the burn uid and 0 at every other uid.
C5_ZeroTotalBurnsAll ==
    (swpc # "idle" /\ entry.total_value = RZero) =>
        /\ ~entry.calculated
        /\ result # Raised
        /\ Len(chain_calls) >= 1
        /\ \A c \in Calls :
              /\ DOMAIN chain_calls[c].weights = 1..Len(hotkeys)
              /\ \A k \in 1..Len(hotkeys) :
                    chain_calls[c].weights[k] =
                        IF k = burn_uid + 1 THEN RInt(1) ELSE RInt(0)

\* A call with all-zero scores has submitted and the burn uid is not uid 0.
C5_Witness ==
    /\ swpc = "done"
    /\ entry.total_value = RZero
    /\ burn_uid > 0
    /\ Len(chain_calls) >= 1

\* C6: when total_value > 0 and scaled_total_value <= value_to_dist, each
\* submitted weight is (score / total_value) * (scaled_total_value /
\* value_to_dist), that is score * PAYOUT_FACTOR / value_to_dist, and the
\* burn uid's weight is that plus the whole shortfall 1 - scaled /
\* value_to_dist; scores [10, 0, 30] with burn uid 1 give
\* [1/4 * wtd, 1 - wtd, 3/4 * wtd] for wtd = scaled / value_to_dist.
C6_WithinBudgetWeights ==
    WithinBudget =>
        \A c \in Calls :
            LET w == chain_calls[c].weights
                V == entry.value_to_dist
                wtd == RDiv(ScaledTotal, V)
            IN /\ \A k \in 1..Len(hotkeys) :
                     IF k = burn_uid + 1
                     THEN IsProductOver(RSub(w[k], RSub(ROne, wtd)),
                                        entry.scores[k], payout_factor, V)
                     ELSE IsProductOver(w[k], entry.scores[k],
                                        payout_factor, V)
               /\ (entry.scores = <<RInt(10), RInt(0), RInt(30)>>
                      /\ burn_uid = 1) =>
                     w = <<RMul(Rat(1, 4), wtd), RSub(ROne, wtd),
                           RMul(Rat(3, 4), wtd)>>

\* The scenario [10, 0, 30] with burn uid 1 was submitted with a budget
\* strictly larger than the scaled scores.
C6_Witness ==
    /\ swpc = "done"
    /\ WithinBudget
    /\ RLess(ScaledTotal, entry.value_to_dist)
    /\ entry.scores = <<RInt(10), RInt(0), RInt(30)>>
    /\ burn_uid = 1
    /\ Len(chain_calls) >= 1

\* C7: when scaled_total_value > value_to_dist, each weight before the
\* burn adjustment is score / scaled_total_value, these weights add up to
\* at most 1, and so does the vector submitted (the burn uid receives
\* score / scaled_total_value plus what is missing to 1).
C7_OverBudgetWeights ==
    OverBudget =>
        /\ RLeq(RDiv(entry.total_value, ScaledTotal), ROne)
        /\ \A c \in Calls :
              LET w == chain_calls[c].weights
                  missing == RSub(ROne, RDiv(entry.total_value, ScaledTotal))
              IN /\ \A k \in 1..Len(hotkeys) :
                       IF k = burn_uid + 1
                       THEN IsProductOver(RSub(w[k], missing),
                                          entry.scores[k], ROne, ScaledTotal)
                       ELSE IsProductOver(w[k], entry.scores[k], ROne,
                                          ScaledTotal)
                 /\ RLeq(RSum(w), ROne)

\* An over-budget vector was submitted with PAYOUT_FACTOR above 1 and two
\* uids holding a positive score.
C7_Witness ==
    /\ swpc = "done"
    /\ OverBudget
    /\ RLess(ROne, payout_factor)
    /\ Len(chain_calls) >= 1
    /\ \E a, b \in 1..Len(hotkeys) :
          a # b /\ RLess(RZero, entry.scores[a]) /\ RLess(RZero, entry.scores[b])

CommitCalls == {c \in Calls : chain_calls[c].op = "commit_weights"}
RevealCalls == {c \in Calls : chain_calls[c].op = "reveal_weights"}

\* C9: when the commit succeeded and the reveal failed, the call has
\* returned failure, the scores and the last-submission marker are what
\* they were at entry, and the call made exactly one commit.
C9_RevealFailureKeepsState ==
    (\E r \in RevealCalls : ~chain_calls[r].ok) =>
        /\ swpc = "done"
        /\ result = Returned(FALSE)
        /\ scores = entry.scores
        /\ last_update = entry.last_update
        /\ Cardinality(CommitCalls) = 1
        /\ Cardinality(RevealCalls) = 1
        /\ \A c \in CommitCalls : chain_calls[c].ok

\* A reveal failed after a successful commit, with scores to lose and a
\* marker that a reset would move.
C9_Witness ==
    /\ \E r \in RevealCalls : ~chain_calls[r].ok
    /\ entry.total_value # RZero
    /\ current_block # entry.last_update

\* C11: a reveal_weights call is issued only from the wait that follows a
\* successful commit_weights of the same set_weights call, and it carries
\* the uids, the weights and the salt that this commit carried.
C11_RevealRepeatsCommit ==
    [][(Len(chain_calls') = Len(chain_calls) + 1
          /\ chain_calls'[Len(chain_calls')].op = "reveal_weights") =>
       LET reveal == chain_calls'[Len(chain_calls')]
       IN /\ swpc = "waiting"
          /\ Len(chain_calls) = 1
          /\ chain_calls[1].op = "commit_weights"
          /\ chain_calls[1].ok
          /\ reveal.uids = chain_calls[1].uids
          /\ reveal.weights = chain_calls[1].weights
          /\ reveal.salt = chain_calls[1].salt]_vars

\* A reveal followed a commit of a computed (not all-burn) weight vector.
C11_Witness ==
    /\ RevealCalls # {}
    /\ entry.calculated
    /\ \E k \in 1..Len(hotkeys) :
          k # burn_uid + 1 /\ RLess(RZero, chain_calls[1].weights[k])

\* C14: a set_weights call makes its chain calls on exactly one path, the
\* one the commit-reveal query selected: on the direct path one chain
\* set_weights call and nothing else; on the commit-reveal path one commit,
\* followed by at most one reveal, which is there only if the commit
\* succeeded and is the call's last chain call; never a direct call.  A call
\* that raises before the query of line 444 makes no chain call at all.
C14_OnePathPerCall ==
    /\ (swpc # "idle" /\ result = Raised) => chain_calls = <<>>
    /\ (swpc # "idle" /\ result # Raised) =>
        IF entry.commit_reveal
        THEN /\ Len(chain_calls) \in {1, 2}
             /\ chain_calls[1].op = "commit_weights"
             /\ Len(chain_calls) = 2 =>
                    /\ chain_calls[2].op = "reveal_weights"
                    /\ chain_calls[1].ok
             /\ (swpc = "done" /\ chain_calls[1].ok) => Len(chain_calls) = 2
             /\ swpc = "waiting" => (chain_calls[1].ok /\ Len(chain_calls) = 1)
        ELSE /\ swpc = "done"
             /\ Len(chain_calls) = 1
             /\ chain_calls[1].op = "set_weights"

\* Both paths are taken: here a commit-reveal call has made its reveal.
C14_Witness ==
    /\ swpc = "done"
    /\ entry.commit_reveal
    /\ Len(chain_calls) = 2

\* C10: when the commit reports failure, the call has returned failure
\* with the commit as its only chain call (no reveal), and the scores and
\* the last-submission marker are what they were at entry.
C10_CommitFailureAborts ==
    (\E c \in CommitCalls : ~chain_calls[c].ok) =>
        /\ swpc = "done"
        /\ result = Returned(FALSE)
        /\ RevealCalls = {}
        /\ Len(chain_calls) = 1
        /\ scores = entry.scores
        /\ last_update = entry.last_update

\* A commit failed in a call entered with non-zero scores.
C10_Witness ==
    /\ \E c \in CommitCalls : ~chain_calls[c].ok
    /\ entry.total_value # RZero
    /\ current_block # entry.last_update

-----------------------------------------------------------------------------
(* WindowManager and ScoreAggregator: evaluate_miner_share_value           *)
(* (validator.py lines 142-231) and get_share_value_fiat                   *)
(* (dogelayer_proxy.py lines 22-60).                                       *)

\* A window computation without the 24 hour cap of lines 163-165.
ComputeWindowNoCap(last, current_time) ==
    LET start_time ==
            IF last = None \/ last[1] >= current_time
            THEN current_time - HourSeconds
            ELSE IF current_time - last[1] < MinWindow
                 THEN current_time - MinWindow
                 ELSE last[1]
    IN [start_time |-> start_time, end_time |-> current_time]

\* A window computation whose first-evaluation branch looks back the
\* minimum window instead of one hour.
ComputeWindowColdHalfHour(last, current_time) ==
    LET start_time ==
            IF last = None \/ last[1] >= current_time
            THEN current_time - MinWindow
            ELSE IF current_time - last[1] < MinWindow
                 THEN current_time - MinWindow
                 ELSE last[1]
    IN [start_time |-> start_time, end_time |-> current_time]

\* A window computation without the widening of lines 154-159.
ComputeWindowNoMinimum(last, current_time) ==
    LET start_time ==
            IF last = None \/ last[1] >= current_time
            THEN current_time - HourSeconds
            ELSE last[1]
        end_time == current_time
    IN IF end_time - start_time > MaxRange
       THEN [start_time |-> end_time - MaxRange, end_time |-> end_time]
       ELSE [start_time |-> start_time, end_time |-> end_time]

\* A window computation that looks back one hour instead of resuming from
\* the last evaluation timestamp.
ComputeWindowFromHourAgo(last, current_time) ==
    LET start_time ==
            IF last = None \/ last[1] >= current_time
            THEN current_time - HourSeconds
            ELSE IF current_time - last[1] < MinWindow
                 THEN current_time - MinWindow
                 ELSE current_time - HourSeconds
    IN [start_time |-> start_time, end_time |-> current_time]

\* Lines 145-167: the window [start_time, end_time).
\* A window whose range is capped at one hour instead of 24 hours.
ComputeWindowCapsAtHour(last, current_time) ==
    LET start_time ==
            IF last = None \/ last[1] >= current_time
            THEN current_time - HourSeconds
            ELSE IF current_time - last[1] < MinWindow
                 THEN current_time - MinWindow
                 ELSE last[1]
        end_time == current_time
    IN IF end_time - start_time > HourSeconds
       THEN [start_time |-> end_time - HourSeconds, end_time |-> end_time]
       ELSE [start_time |-> start_time, end_time |-> end_time]

ComputeWindow(last, current_time) ==
    LET start_time ==
            IF last = None \/ last[1] >= current_time
            THEN current_time - HourSeconds
            ELSE IF current_time - last[1] < MinWindow
                 THEN current_time - MinWindow
                 ELSE last[1]
        end_time == current_time
    IN IF end_time - start_time > MaxRange
       THEN [start_time |-> end_time - MaxRange, end_time |-> end_time]
       ELSE [start_time |-> start_time, end_time |-> end_time]

\* The block reward multiplier 6.25 of line 47.
BlockReward == Rat(25, 4)

\* A conversion without the 'if self.share_value' test of line 43: it
\* divides whatever the share value is.
GetShareValueFiatAlwaysDivides(metric, coin_price, coin_difficulty) ==
    IF coin_difficulty = RZero
    THEN [raised |-> TRUE, value |-> RZero]
    ELSE [raised |-> FALSE,
          value |-> RMul(RMul(RDiv(RInt(metric.share_value), coin_difficulty),
                              Rat(25, 4)),
                         coin_price)]

\* get_share_value_fiat (DEV_REWARD_FACTOR at its default 1.0): the fiat
\* value, or a ZeroDivisionError when a non-zero share value meets a zero
\* difficulty.
GetShareValueFiat(metric, coin_price, coin_difficulty) ==
    IF metric.share_value # 0
    THEN IF coin_difficulty = RZero
         THEN [raised |-> TRUE, value |-> RZero]
         ELSE [raised |-> FALSE,
               value |-> RMul(RMul(RDiv(RInt(metric.share_value),
                                        coin_difficulty),
                                   BlockReward),
                              coin_price)]
    ELSE [raised |-> FALSE, value |-> RZero]

\* Lines 191-194: no price or a zero price is replaced by the fallback.
PriceOrFallback(price) ==
    IF price = None \/ price[1] = RZero THEN RInt(FallbackPrice) ELSE price[1]

\* hotkey_to_uid of lines 143-144 (dict comprehension: the last index
\* wins), as a 1-based index.
HotkeyToUid(hks, hotkey) ==
    CHOOSE k \in 1..Len(hks) :
        /\ hks[k] = hotkey
        /\ \A j \in 1..Len(hks) : hks[j] = hotkey => j <= k

RECURSIVE ScoreLoop(_, _, _, _, _, _)

\* A loop that assigns ("=") where line 218 adds ("+=").
ScoreLoopAssigns(n, sc, hks, miner_metrics, price, difficulty) ==
    IF n = 0 THEN [raised |-> FALSE, scores |-> sc]
    ELSE LET before == ScoreLoop(n - 1, sc, hks, miner_metrics, price,
                                 difficulty)
             metric == miner_metrics[n]
             fiat == GetShareValueFiat(metric, price, difficulty)
             uid == HotkeyToUid(hks, metric.hotkey)
         IN IF before.raised THEN before
            ELSE IF fiat.raised THEN [raised |-> TRUE, scores |-> before.scores]
            ELSE [raised |-> FALSE,
                  scores |-> [before.scores EXCEPT ![uid] = fiat.value]]

\* A loop that credits the raw share value before it converts it, so that
\* a conversion that raises leaves the credit behind.
ScoreLoopCreditsBeforeConverting(n, sc, hks, miner_metrics, price, difficulty) ==
    IF n = 0 THEN [raised |-> FALSE, scores |-> sc]
    ELSE LET before == ScoreLoop(n - 1, sc, hks, miner_metrics, price,
                                 difficulty)
             metric == miner_metrics[n]
             fiat == GetShareValueFiat(metric, price, difficulty)
             uid == HotkeyToUid(hks, metric.hotkey)
         IN IF before.raised THEN before
            ELSE IF fiat.raised
            THEN [raised |-> TRUE,
                  scores |-> [before.scores EXCEPT
                                 ![uid] = RAdd(@, RInt(metric.share_value))]]
            ELSE [raised |-> FALSE,
                  scores |-> [before.scores EXCEPT ![uid] = RAdd(@, fiat.value)]]

\* Lines 206-218 for the first n metrics: scores[uid] += share_value, until
\* get_share_value_fiat raises.
ScoreLoop(n, sc, hks, miner_metrics, price, difficulty) ==
    IF n = 0 THEN [raised |-> FALSE, scores |-> sc]
    ELSE LET before == ScoreLoop(n - 1, sc, hks, miner_metrics, price,
                                 difficulty)
             metric == miner_metrics[n]
             fiat == GetShareValueFiat(metric, price, difficulty)
             uid == HotkeyToUid(hks, metric.hotkey)
         IN IF before.raised THEN before
            ELSE IF fiat.raised THEN [raised |-> TRUE, scores |-> before.scores]
            ELSE [raised |-> FALSE,
                  scores |-> [before.scores EXCEPT ![uid] = RAdd(@, fiat.value)]]

\* An evaluation that moves the timestamp to the current time even when it
\* failed.
EvaluateCoinAdvancesOnFailure(sc, hks, bars, last, current_time, pool, price, difficulty) ==
    IF pool.raised
    THEN [raised |-> TRUE, scores |-> sc, last |-> Some(current_time)]
    ELSE LET miner_metrics == GetMetricsTimerange(hks, bars, pool.workers)
             loop == ScoreLoop(Len(miner_metrics), sc, hks, miner_metrics,
                               PriceOrFallback(price), difficulty)
         IN [raised |-> loop.raised, scores |-> loop.scores,
             last |-> Some(current_time)]

\* Lines 172-231 for the one configured coin.  `pool' is what
\* pool.get_miner_contributions_timerange does: it raises, or it returns
\* the snapshot pool.workers.
EvaluateCoin(sc, hks, bars, last, current_time, pool, price, difficulty) ==
    IF pool.raised
    THEN [raised |-> TRUE, scores |-> sc, last |-> last]
    ELSE LET miner_metrics == GetMetricsTimerange(hks, bars, pool.workers)
             loop == ScoreLoop(Len(miner_metrics), sc, hks, miner_metrics,
                               PriceOrFallback(price), difficulty)
         IN IF loop.raised
            THEN [raised |-> TRUE, scores |-> loop.scores, last |-> last]
            ELSE [raised |-> FALSE, scores |-> loop.scores,
                  last |-> Some(current_time)]

\* Input universes of the evaluation.
FullRecord == [share_value |-> 5, hashrate |-> 2, shares |-> 3]
EvalSnapshots ==
    { EmptyDict,
      [w \in {<<"idA">>, <<"idB">>} |-> FullRecord],
      [w \in {<<"idA", "rig1">>, <<"idA", "rig2">>} |-> FullRecord] }
PoolOutcomes ==
    {[raised |-> TRUE, workers |-> EmptyDict]}
    \cup {[raised |-> FALSE, workers |-> aw] : aw \in EvalSnapshots}
Prices == {None, Some(RZero), Some(RInt(8))}
Difficulties == {RZero, RInt(25)}
\* Seconds between one reading of the clock and the next (the clock may be
\* set back).
ClockSteps == {-60, 0, 1799, 1800, 86400, 86401}
StartClock == 2 * MaxRange

\* Which provider, if any, gave a value the evaluation cannot price with:
\* no price or a zero price (line 192), or a zero difficulty (line 202).
\* Neither provider is asked once the pool query has raised.
DegenerateInput(pool, price, difficulty) ==
    IF pool.raised THEN "none"
    ELSE IF difficulty = RZero THEN "difficulty"
    ELSE IF price = None \/ price = Some(RZero) THEN "price"
    ELSE "none"

InitEval ==
    /\ hotkeys = <<"idA", "idB">>
    /\ MIdle
    /\ scores = Zeros(Len(hotkeys))
    /\ last_update = 0
    /\ current_block = 0
    /\ burn_uid = 0
    /\ payout_factor = ROne
    /\ swpc = "idle"
    /\ weights = <<>>
    /\ salt = 0
    /\ chain_calls = <<>>
    /\ result = NoResult
    /\ entry = NoResult
    /\ last_evaluation_timestamp = None
    /\ clock = StartClock
    /\ window = NoResult
    /\ evals = 0
    /\ eval_result = NoResult
    /\ RIdle
    /\ PIdle

\* One call of evaluate_miner_share_value, `step' seconds after the clock
\* was last read.
Evaluate ==
    /\ evals < MaxEvals
    /\ \E step \in ClockSteps, pool \in PoolOutcomes, price \in Prices,
          difficulty \in Difficulties :
          LET current_time == clock + step
              w == ComputeWindow(last_evaluation_timestamp, current_time)
              out == EvaluateCoin(scores, hotkeys, block_at_registration,
                                  last_evaluation_timestamp, current_time,
                                  pool, price, difficulty)
          IN /\ clock' = current_time
             /\ window' = [start_time |-> w.start_time,
                           end_time |-> w.end_time,
                           prior |-> last_evaluation_timestamp]
             /\ scores' = out.scores
             /\ last_evaluation_timestamp' = out.last
             /\ eval_result' = [kind |-> IF out.raised THEN "failed" ELSE "ok",
                                previous |-> eval_result.kind,
                                degenerate |-> DegenerateInput(pool, price,
                                                               difficulty)]
    /\ evals' = evals + 1
    /\ UNCHANGED <<last_update, current_block, burn_uid, payout_factor, swpc,
                   weights, salt, chain_calls, result, entry>>
    /\ UNCHANGED <<mvars, rvars, pvars>>

NextEval == Evaluate

SpecEval == InitEval /\ [][NextEval]_vars

-----------------------------------------------------------------------------
(* Properties of evaluate_miner_share_value.                               *)

\* C8: whatever last_evaluation_timestamp was (None, before, at or after
\* the current time), the window an evaluation computes is at least 30
\* minutes and at most 24 hours long, and ends at the current time.
C8_WindowWithinBounds ==
    window # NoResult =>
        /\ window.end_time = clock
        /\ window.end_time - window.start_time >= 30 * 60
        /\ window.end_time - window.start_time <= 24 * 60 * 60

\* An evaluation found a timestamp more than 24 hours old and clamped the
\* window to 24 hours.
C8_Witness ==
    /\ window # NoResult
    /\ window.prior # None
    /\ window.end_time - window.prior[1] > 24 * 60 * 60
    /\ window.end_time - window.start_time = 24 * 60 * 60

\* C18 as stated: an evaluation that succeeds sets last_evaluation_timestamp
\* to its window's end_time, one that fails leaves it as it was, and the
\* window of the evaluation that follows a failed one starts no later than
\* the failed window started.
C18_NextWindowCoversFailedOne ==
    [][evals' = evals + 1 =>
       /\ eval_result'.kind = "ok" =>
              last_evaluation_timestamp' = Some(window'.end_time)
       /\ eval_result'.kind = "failed" =>
              last_evaluation_timestamp' = last_evaluation_timestamp
       /\ eval_result.kind = "failed" =>
              window'.start_time <= window.start_time]_vars

\* C18 amended: an evaluation that succeeds sets last_evaluation_timestamp
\* to its window's end_time and one that fails leaves it as it was, so the
\* evaluation that follows a failed one computes its window from the same
\* timestamp as the failed one did: when that timestamp exists and is at
\* most 24 hours before the new end_time, the new window starts no later
\* than the timestamp.
C18_FailureKeepsCursor ==
    [][evals' = evals + 1 =>
       /\ eval_result'.kind = "ok" =>
              last_evaluation_timestamp' = Some(window'.end_time)
       /\ eval_result'.kind = "failed" =>
              last_evaluation_timestamp' = last_evaluation_timestamp
       /\ eval_result.kind = "failed" =>
              /\ window'.prior = window.prior
              /\ (window.prior # None
                    /\ window'.end_time - window.prior[1] <= MaxRange) =>
                     window'.start_time <= window.prior[1]]_vars

\* An evaluation followed a failed one that had a timestamp to start from,
\* less than 24 hours later, and it succeeded.
C18_Witness ==
    /\ eval_result.kind = "ok"
    /\ eval_result.previous = "failed"
    /\ window.prior # None
    /\ window.end_time > window.prior[1]
    /\ window.end_time - window.prior[1] <= MaxRange
    /\ last_evaluation_timestamp = Some(window.end_time)

-----------------------------------------------------------------------------
(* StateStore and the validator loop: save_state, restore_state_and_evaluate *)
(* and run (validator.py lines 255-321 and 532-595).                         *)

\* BAD_COLDKEYS of line 49, the one address written "ckBad".
BAD_COLDKEYS == {"ckBad"}

\* Lines 66-67.
WeightsInterval(tp) == tp * 3
EvalInterval(tp) == tp * 2

\* A test of line 557 against eval_interval instead of weights_interval.
IsDueAtEvalInterval(blocks_since, tp) == blocks_since >= EvalInterval(tp)

\* Line 557: a submission is due.
IsDue(blocks_since, tp) == blocks_since >= WeightsInterval(tp)

\* What the chain may report at line 554 for blocks_since_last_update: the
\* two values at the threshold of line 557.
BlocksSinceReports(tp) == {WeightsInterval(tp) - 1, WeightsInterval(tp)}

\* save_state: the fields of the state dict of lines 256-273 that the
\* restore reads back, as the storage keeps them.
SaveState(sc, hks, bars, cb, last) ==
    Some([scores |-> sc, hotkeys |-> hks, block_at_registration |-> bars,
          current_block |-> cb, last_evaluation_timestamp |-> last])

\* Lines 299-300: blocks_down >= self.tempo * 1.5.
IsStale(blocks_down, tp) == 2 * blocks_down >= 3 * tp

\* A restore that forgets the evaluation timestamp.
RestoreFieldsWithoutTimestamp(state) ==
    [scores |-> state.scores, hotkeys |-> state.hotkeys,
     block_at_registration |-> state.block_at_registration,
     last_evaluation_timestamp |-> None]

\* Lines 305-310: the fields taken from the stored state.
RestoreFields(state) ==
    [scores |-> state.scores, hotkeys |-> state.hotkeys,
     block_at_registration |-> state.block_at_registration,
     last_evaluation_timestamp |-> state.last_evaluation_timestamp]

\* An exclusion loop that is missing.
ZeroBadColdkeysMissing(sc, n, cks) == sc

\* Lines 313-315: the scores of excluded owners are set to 0.0.
ZeroBadColdkeys(sc, n, cks) ==
    [k \in 1..Len(sc) |->
        IF k <= n /\ cks[k] \in BAD_COLDKEYS THEN RZero ELSE sc[k]]

\* resync_metagraph of BaseValidator: the block height the validator holds
\* after it, read as soon as the chain has reached `reached'.  The
\* registry's identities are taken to be the same before and after.
ResyncBlocks(reached) == {reached}

\* get_next_sync_block of BaseValidator: the next target block.
GetNextSyncBlock(cb, tp) == cb + EvalInterval(tp)

\* The end of the latest evaluation that completed, after the call `ev':
\* the call's end_time when it reached line 222.
CompletedUntil(until, ev) ==
    IF ev.eval_result.kind = "ok" THEN Some(ev.window.end_time) ELSE until

\* One call of evaluate_miner_share_value (lines 142-231) with the clock
\* reading current_time: the scores, the timestamp, the window it used and
\* how it ended.
EvaluateMinerShareValue(sc, hks, bars, last, current_time, pool, price, difficulty) ==
    LET w == ComputeWindow(last, current_time)
        out == EvaluateCoin(sc, hks, bars, last, current_time, pool, price,
                            difficulty)
    IN [scores |-> out.scores,
        last_evaluation_timestamp |-> out.last,
        window |-> [start_time |-> w.start_time, end_time |-> w.end_time,
                    prior |-> last],
        eval_result |-> [kind |-> IF out.raised THEN "failed" ELSE "ok"]]

\* Input universes of the loop.
Tempos == {2, 3}
\* The owners of the two identities: none excluded, or the second one.
ColdkeyLists == {<<"ckGood", "ckGood">>, <<"ckGood", "ckBad">>}
Downtimes == {2, 3, 4}
RunClockSteps == {7200}
RunPoolOutcomes ==
    { [raised |-> TRUE, workers |-> EmptyDict],
      [raised |-> FALSE,
       workers |-> [w \in {<<"idA">>, <<"idB">>} |-> FullRecord]] }
RunPrices == {Some(RInt(8))}
RunDifficulties == {RInt(25)}

\* A validator process that has been constructed (BaseValidator.__init__
\* and lines 57-69) and is about to call run.
InitRun ==
    /\ hotkeys = <<"idA", "idB">>
    /\ MIdle
    /\ coldkeys \in ColdkeyLists
    /\ tempo \in Tempos
    /\ scores = Zeros(Len(hotkeys))
    /\ last_update = 0
    /\ current_block = 0
    /\ burn_uid = 0
    /\ payout_factor = ROne
    /\ swpc = "off"
    /\ weights = <<>>
    /\ salt = 0
    /\ chain_calls = <<>>
    /\ result = NoResult
    /\ entry = NoResult
    /\ last_evaluation_timestamp = None
    /\ clock = StartClock
    /\ window = NoResult
    /\ evals = 0
    /\ eval_result = NoResult
    /\ rpc = "start"
    /\ stored = None
    /\ next_sync_block = 0
    /\ blocks_since_last_weights = 0
    /\ evaluated_until = None
    /\ restored = NoResult
    /\ salts_used = <<>>
    /\ cycles = 0
    /\ restarts = 0
    /\ PIdle

\* Line 536: run in a process started without "restore".
RunStartFresh ==
    /\ rpc = "start"
    /\ current_block' \in ResyncBlocks(current_block)
    /\ restored' = NoResult
    /\ rpc' = "started"
    /\ UNCHANGED <<scores, last_update, burn_uid, payout_factor, swpc,
                   weights, salt, chain_calls, result, entry, salts_used>>
    /\ UNCHANGED <<stored, next_sync_block, tempo, blocks_since_last_weights,
                   evaluated_until,
                   coldkeys, cycles, restarts>>
    /\ UNCHANGED <<mvars, evars, pvars>>

\* Line 534 and restore_state_and_evaluate (lines 293-321) when there is
\* nothing to restore from: no stored state, or a stale one.
RunStartRestoreNothing ==
    /\ rpc = "start"
    /\ \/ /\ stored = None
          /\ restored' = [kind |-> "nostate"]
       \/ /\ stored # None
          /\ LET state == stored[1]
                 blocks_down == current_block - state.current_block
             IN /\ IsStale(blocks_down, tempo)
                /\ restored' = [kind |-> "stale", state |-> state,
                                blocks_down |-> blocks_down]
    /\ rpc' = "started"
    /\ UNCHANGED <<wvars, mvars, evars, pvars>>
    /\ UNCHANGED <<stored, next_sync_block, tempo, blocks_since_last_weights,
                   evaluated_until,
                   coldkeys, salts_used,
                   cycles, restarts>>

\* Line 534 and restore_state_and_evaluate (lines 293-321) on a state that
\* is not stale: the fields are restored, the registry is resynced, the
\* excluded owners' scores are zeroed and one evaluation is made.
RunStartRestore ==
    /\ rpc = "start"
    /\ stored # None
    /\ \E cb \in ResyncBlocks(current_block), step \in RunClockSteps,
          pool \in RunPoolOutcomes, price \in RunPrices,
          difficulty \in RunDifficulties :
          LET state == stored[1]
              blocks_down == current_block - state.current_block
              fields == RestoreFields(state)
              zeroed == ZeroBadColdkeys(fields.scores, Len(fields.hotkeys),
                                        coldkeys)
              ev == EvaluateMinerShareValue(
                        zeroed, fields.hotkeys, fields.block_at_registration,
                        fields.last_evaluation_timestamp, clock + step,
                        pool, price, difficulty)
          IN /\ ~IsStale(blocks_down, tempo)
             /\ hotkeys' = fields.hotkeys
             /\ block_at_registration' = fields.block_at_registration
             /\ current_block' = cb
             /\ clock' = clock + step
             /\ scores' = ev.scores
             /\ last_evaluation_timestamp' = ev.last_evaluation_timestamp
             /\ window' = ev.window
             /\ eval_result' = ev.eval_result
             /\ evaluated_until' = CompletedUntil(evaluated_until, ev)
             /\ restored' = [kind |-> "restored", state |-> state,
                             blocks_down |-> blocks_down,
                             evaluated |-> [scores |-> zeroed,
                                            last_evaluation_timestamp |->
                                              fields.last_evaluation_timestamp]]
    /\ rpc' = "started"
    /\ UNCHANGED <<last_update, burn_uid, payout_factor, swpc, weights, salt,
                   chain_calls, result, entry, salts_used>>
    /\ UNCHANGED <<all_workers, hotkeys_to_workers, worker_ids_to_hotkey_idx,
                   metrics, mpc, i>>
    /\ UNCHANGED <<evals, stored, next_sync_block, tempo, blocks_since_last_weights,
                   coldkeys, cycles,
                   restarts>>
    /\ UNCHANGED pvars

\* Lines 538-542: the first target block.
RunEnterLoop ==
    /\ rpc = "started"
    /\ next_sync_block' = current_block + EvalInterval(tempo)
    /\ rpc' = "loop"
    /\ UNCHANGED <<wvars, mvars, evars, pvars>>
    /\ UNCHANGED <<stored, tempo, blocks_since_last_weights,
                   evaluated_until,
                   coldkeys, restored, salts_used, cycles,
                   restarts>>

\* Lines 549-552: the target block is reached, the registry is resynced and
\* the evaluation is made.
RunEvaluate ==
    /\ rpc = "loop"
    /\ cycles < MaxCycles
    /\ \E cb \in ResyncBlocks(next_sync_block), step \in RunClockSteps,
          pool \in RunPoolOutcomes, price \in RunPrices,
          difficulty \in RunDifficulties :
          LET ev == EvaluateMinerShareValue(
                        scores, hotkeys, block_at_registration,
                        last_evaluation_timestamp, clock + step,
                        pool, price, difficulty)
          IN /\ current_block' = cb
             /\ clock' = clock + step
             /\ scores' = ev.scores
             /\ last_evaluation_timestamp' = ev.last_evaluation_timestamp
             /\ window' = ev.window
             /\ eval_result' = ev.eval_result
             /\ evaluated_until' = CompletedUntil(evaluated_until, ev)
    /\ cycles' = cycles + 1
    /\ rpc' = "evaluated"
    /\ UNCHANGED <<last_update, burn_uid, payout_factor, swpc, weights, salt,
                   chain_calls, result, entry, salts_used>>
    /\ UNCHANGED <<mvars, evals, pvars>>
    /\ UNCHANGED <<stored, next_sync_block, tempo, blocks_since_last_weights,
                   coldkeys, restored,
                   restarts>>

\* Lines 563-580: save_state and the next target block.
EndCycle ==
    /\ stored' = SaveState(scores, hotkeys, block_at_registration,
                           current_block, last_evaluation_timestamp)
    /\ next_sync_block' = GetNextSyncBlock(current_block, tempo)
    /\ rpc' = "loop"

\* Lines 554-557 and 563-580 when the chain reports fewer blocks since the
\* last update than weights_interval: no submission in this cycle.
RunSkipWeights ==
    /\ rpc = "evaluated"
    /\ \E reported \in BlocksSinceReports(tempo) :
          /\ ~IsDue(reported, tempo)
          /\ blocks_since_last_weights' = reported
    /\ EndCycle
    /\ UNCHANGED <<wvars, mvars, evars, pvars>>
    /\ UNCHANGED <<tempo, evaluated_until, coldkeys, restored, salts_used,
                   cycles, restarts>>

\* A run that saved the state before it called set_weights.
RunCallSetWeightsSavesFirst ==
    /\ rpc = "evaluated"
    /\ \E reported \in BlocksSinceReports(tempo) :
          /\ IsDue(reported, tempo)
          /\ blocks_since_last_weights' = reported
    /\ stored' = SaveState(scores, hotkeys, block_at_registration,
                           current_block, last_evaluation_timestamp)
    /\ rpc' = "set_weights"
    /\ swpc' = "idle"
    /\ weights' = <<>>
    /\ chain_calls' = <<>>
    /\ result' = NoResult
    /\ entry' = NoResult
    /\ UNCHANGED <<scores, last_update, current_block, burn_uid,
                   payout_factor, salt, salts_used>>
    /\ UNCHANGED <<mvars, evars, pvars>>
    /\ UNCHANGED <<next_sync_block, tempo, evaluated_until, coldkeys,
                   restored, cycles, restarts>>

\* Lines 554-558 when blocks_since_last_update >= weights_interval:
\* set_weights is called.
RunCallSetWeights ==
    /\ rpc = "evaluated"
    /\ \E reported \in BlocksSinceReports(tempo) :
          /\ IsDue(reported, tempo)
          /\ blocks_since_last_weights' = reported
    /\ rpc' = "set_weights"
    /\ swpc' = "idle"
    /\ weights' = <<>>
    /\ chain_calls' = <<>>
    /\ result' = NoResult
    /\ entry' = NoResult
    /\ UNCHANGED <<scores, last_update, current_block, burn_uid,
                   payout_factor, salt, salts_used>>
    /\ UNCHANGED <<mvars, evars, pvars>>
    /\ UNCHANGED <<stored, next_sync_block, tempo, evaluated_until, coldkeys,
                   restored, cycles, restarts>>

\* The call of line 558 is over: its locals are gone.
ReturnFromSetWeights ==
    /\ swpc' = "off"
    /\ weights' = <<>>
    /\ salt' = 0
    /\ chain_calls' = <<>>
    /\ result' = NoResult
    /\ entry' = NoResult

\* Lines 558-580 when set_weights returned success.
RunSetWeightsSucceeded ==
    /\ rpc = "set_weights"
    /\ swpc = "done"
    /\ result = Returned(TRUE)
    /\ EndCycle
    /\ ReturnFromSetWeights
    /\ UNCHANGED <<scores, last_update, current_block, burn_uid,
                   payout_factor, salts_used>>
    /\ UNCHANGED <<mvars, evars, pvars>>
    /\ UNCHANGED <<tempo, blocks_since_last_weights,
                   evaluated_until,
                   coldkeys, restored, cycles, restarts>>

\* Lines 559-561: set_weights returned failure and the loop continues.
RunSetWeightsFailed ==
    /\ rpc = "set_weights"
    /\ swpc = "done"
    /\ result = Returned(FALSE)
    /\ rpc' = "loop"
    /\ ReturnFromSetWeights
    /\ UNCHANGED <<scores, last_update, current_block, burn_uid,
                   payout_factor, salts_used>>
    /\ UNCHANGED <<mvars, evars, pvars>>
    /\ UNCHANGED <<stored, next_sync_block, tempo, blocks_since_last_weights,
                   evaluated_until,
                   coldkeys, restored,
                   cycles, restarts>>

\* Lines 558 and 585-595: set_weights raised a TypeError, which neither
\* except clause of run catches; the exception leaves run.
RunSetWeightsRaised ==
    /\ rpc = "set_weights"
    /\ swpc = "done"
    /\ result = Raised
    /\ rpc' = "crashed"
    /\ ReturnFromSetWeights
    /\ UNCHANGED <<scores, last_update, current_block, burn_uid,
                   payout_factor, salts_used>>
    /\ UNCHANGED <<mvars, evars, pvars>>
    /\ UNCHANGED <<stored, next_sync_block, tempo, blocks_since_last_weights,
                   evaluated_until,
                   coldkeys, restored,
                   cycles, restarts>>

\* The process is stopped and started again `down' blocks later: a new
\* validator object is constructed; only the storage keeps its content.
Restart ==
    /\ rpc \in {"loop", "crashed"}
    /\ restarts < MaxRestarts
    /\ \E down \in Downtimes : current_block' = current_block + down
    /\ scores' = Zeros(Len(hotkeys))
    /\ last_update' = 0
    /\ last_evaluation_timestamp' = None
    /\ window' = NoResult
    /\ eval_result' = NoResult
    /\ restored' = NoResult
    /\ weights' = <<>>
    /\ salt' = 0
    /\ chain_calls' = <<>>
    /\ result' = NoResult
    /\ entry' = NoResult
    /\ next_sync_block' = 0
    /\ blocks_since_last_weights' = 0
    /\ UNCHANGED evaluated_until
    /\ rpc' = "start"
    /\ restarts' = restarts + 1
    /\ UNCHANGED <<burn_uid, payout_factor, swpc, salts_used>>
    /\ UNCHANGED <<mvars, clock, evals, pvars>>
    /\ UNCHANGED <<stored, tempo, coldkeys, cycles>>

NextRun ==
    \/ RunStartFresh
    \/ RunStartRestoreNothing
    \/ RunStartRestore
    \/ RunEnterLoop
    \/ RunEvaluate
    \/ RunSkipWeights
    \/ RunCallSetWeights
    \/ SetWeightsRaises
    \/ SetWeightsDirect
    \/ SetWeightsCommit
    \/ RevealWeights
    \/ RunSetWeightsSucceeded
    \/ RunSetWeightsFailed
    \/ RunSetWeightsRaised
    \/ Restart

SpecRun == InitRun /\ [][NextRun]_vars

-----------------------------------------------------------------------------
(* Properties of the validator loop.                                       *)

\* C12: over all the commit-reveal attempts the validator makes, no salt is
\* used by two attempts.
C12_SaltNeverReused ==
    \A a, b \in 1..Len(salts_used) : a # b => salts_used[a] # salts_used[b]

\* C13: a set_weights call that takes the direct path and whose chain call
\* succeeds leaves every score at zero and last_update at the current block
\* and returns success; when the chain call fails, the scores, last_update
\* and last_evaluation_timestamp are what they were and the call returns
\* failure.
C13_DirectPathOutcome ==
    [][(swpc = "idle" /\ swpc' = "done" /\ Len(chain_calls') = 1
          /\ chain_calls'[1].op = "set_weights") =>
       IF chain_calls'[1].ok
       THEN /\ scores' = [k \in 1..Len(hotkeys) |-> RZero]
            /\ last_update' = current_block
            /\ result' = Returned(TRUE)
       ELSE /\ scores' = scores
            /\ last_update' = last_update
            /\ last_evaluation_timestamp' = last_evaluation_timestamp
            /\ result' = Returned(FALSE)]_vars

\* A direct submission succeeded in a call entered with non-zero scores, a
\* marker behind the current block and an evaluation timestamp.
C13_Witness ==
    /\ swpc = "done"
    /\ Len(chain_calls) = 1
    /\ chain_calls[1].op = "set_weights"
    /\ chain_calls[1].ok
    /\ entry.total_value # RZero
    /\ entry.last_update # current_block
    /\ last_evaluation_timestamp # None

\* restore_state_and_evaluate has just returned after restoring a state.
RestoreReturned == rpc = "started" /\ restored.kind = "restored"

\* The stored scores with the excluded owners' entries at zero.
SavedScore(k) ==
    IF coldkeys[k] \in BAD_COLDKEYS THEN RZero ELSE restored.state.scores[k]

\* C15 as stated: when a non-stale restore returns, the scores (apart from
\* the excluded owners' zeros), the identity list and
\* last_evaluation_timestamp are the saved ones.
C15_RoundTripOnReturn ==
    RestoreReturned =>
        /\ hotkeys = restored.state.hotkeys
        /\ last_evaluation_timestamp =
               restored.state.last_evaluation_timestamp
        /\ \A k \in 1..Len(hotkeys) : scores[k] = SavedScore(k)

\* C15 amended: after a non-stale restore the identity list is the saved
\* one, and the scores and the timestamp with which the restore's own
\* evaluation (line 318) starts are the saved ones (apart from the excluded
\* owners' zeros); when the restore returns, no score is below its saved
\* value and last_evaluation_timestamp is the saved one if that evaluation
\* failed and its end_time if it succeeded.
C15_RoundTripBeforeEvaluation ==
    RestoreReturned =>
        /\ hotkeys = restored.state.hotkeys
        /\ restored.evaluated.last_evaluation_timestamp =
               restored.state.last_evaluation_timestamp
        /\ \A k \in 1..Len(hotkeys) :
              /\ restored.evaluated.scores[k] = SavedScore(k)
              /\ RLeq(SavedScore(k), scores[k])
        /\ last_evaluation_timestamp =
               IF eval_result.kind = "ok" THEN Some(window.end_time)
               ELSE restored.state.last_evaluation_timestamp

\* A state with non-zero scores and a timestamp was restored, and the
\* restore's evaluation succeeded.
C15_Witness ==
    /\ RestoreReturned
    /\ restored.state.last_evaluation_timestamp # None
    /\ \E k \in 1..Len(hotkeys) : RLess(RZero, restored.state.scores[k])
    /\ eval_result.kind = "ok"

\* C16: a stored state is discarded, leaving the fresh scores and no
\* timestamp, exactly when current_block - stored block is greater than
\* 1.5 x tempo; at every smaller gap, and at a gap equal to 1.5 x tempo, it
\* is restored.
C16_DiscardOnlyBeyondThreshold ==
    (rpc = "started" /\ restored.kind \in {"stale", "restored"}) =>
        IF 2 * restored.blocks_down > 3 * tempo
        THEN /\ restored.kind = "stale"
             /\ scores = [k \in 1..Len(hotkeys) |-> RZero]
             /\ last_evaluation_timestamp = None
        ELSE restored.kind = "restored"

\* C17 as stated: when a non-stale restore returns, the score of every
\* identity whose owner is in BAD_COLDKEYS is 0.
C17_ExcludedZeroOnReturn ==
    RestoreReturned =>
        \A k \in 1..Len(hotkeys) :
            coldkeys[k] \in BAD_COLDKEYS => scores[k] = RZero

\* C17 amended: after a non-stale restore, the score of every identity
\* whose owner is in BAD_COLDKEYS is 0, whatever was persisted for it, when
\* the restore's own evaluation (line 318) starts; when the restore returns
\* it is still 0 if that evaluation failed.
C17_ExcludedZeroBeforeEvaluation ==
    RestoreReturned =>
        \A k \in 1..Len(hotkeys) :
            coldkeys[k] \in BAD_COLDKEYS =>
                /\ restored.evaluated.scores[k] = RZero
                /\ eval_result.kind = "failed" => scores[k] = RZero

\* A state holding a non-zero score for an excluded owner was restored.
C17_Witness ==
    /\ RestoreReturned
    /\ \E k \in 1..Len(hotkeys) :
          /\ coldkeys[k] \in BAD_COLDKEYS
          /\ RLess(RZero, restored.state.scores[k])

\* C19: no failure inside a cycle takes the validator out of the loop of
\* run.
C19_LoopNeverLeft == rpc # "crashed"

\* C20: every step that ends a cycle in which the evaluation was made leaves
\* the storage holding the scores, the identities, the registration blocks
\* and last_evaluation_timestamp as they are at that moment.
C20_CycleEndsWithSave ==
    [][(rpc \in {"evaluated", "set_weights"} /\ rpc' = "loop") =>
       stored' = SaveState(scores', hotkeys', block_at_registration',
                           current_block', last_evaluation_timestamp')]_vars

\* C21: every cycle waits for a target block that lies beyond the block at
\* which the validator last resynced; in particular the cycle that follows
\* a failed set_weights does not run at the target block of the failed one.
C21_RetryWaitsForLaterBlock ==
    [][(rpc = "loop" /\ rpc' = "evaluated") =>
       next_sync_block > current_block]_vars

\* The step is the chain call that ends a submission successfully: the
\* direct set_weights or the reveal.
SubmissionSucceeds ==
    /\ Len(chain_calls') = Len(chain_calls) + 1
    /\ chain_calls'[Len(chain_calls')].op \in {"set_weights", "reveal_weights"}
    /\ chain_calls'[Len(chain_calls')].ok

\* C22: inside one validator process, a step that successfully submits the
\* weights (on either path) leaves every score at zero, and every other
\* step (an evaluation, a failed commit, reveal or direct submission, the
\* bookkeeping of the loop) leaves every score at least as large as it was.
C22_ScoresGrowUntilSubmitted ==
    [][(rpc' # "start" /\ Len(scores') = Len(scores)) =>
       IF SubmissionSucceeds
       THEN \A k \in 1..Len(scores') : scores'[k] = RZero
       ELSE \A k \in 1..Len(scores) : RLeq(scores[k], scores'[k])]_vars

\* Scores that grew over two evaluations were reset by a successful
\* submission.
C22_Witness ==
    /\ rpc = "set_weights"
    /\ swpc = "done"
    /\ result = Returned(TRUE)
    /\ cycles = 2
    /\ \E k \in 1..Len(hotkeys) : RLess(RInt(10), entry.scores[k])
    /\ \A k \in 1..Len(hotkeys) : scores[k] = RZero

\* C27: an evaluation that finds no prior evaluation timestamp uses the
\* window that ends at the current time and starts one hour before it.
C27_ColdStartWindow ==
    (window # NoResult /\ window.prior = None) =>
        /\ window.end_time = clock
        /\ window.start_time = window.end_time - 60 * 60

\* An evaluation ran without a prior timestamp after an earlier one had
\* failed.
C27_Witness ==
    /\ window # NoResult
    /\ window.prior = None
    /\ evals = 2

\* C28 as stated: an evaluation that finds a prior timestamp less than 30
\* minutes before end_time, a timestamp equal to or later than the current
\* time included, uses the window that starts 30 minutes before end_time.
C28_ShortGapWindow ==
    (/\ window # NoResult
     /\ window.prior # None
     /\ window.end_time - window.prior[1] < 30 * 60) =>
        window.start_time = window.end_time - 30 * 60

\* C28 amended: an evaluation that finds a prior timestamp earlier than the
\* current time and less than 30 minutes before end_time uses the window
\* that starts 30 minutes before end_time; one that finds a prior timestamp
\* equal to or later than the current time uses the window that starts one
\* hour before end_time.
C28_ShortGapBeforeNow ==
    (window # NoResult /\ window.prior # None) =>
        /\ (/\ window.prior[1] < window.end_time
            /\ window.end_time - window.prior[1] < 30 * 60) =>
               window.start_time = window.end_time - 30 * 60
        /\ window.prior[1] >= window.end_time =>
               window.start_time = window.end_time - 60 * 60

\* An evaluation found a prior timestamp 1799 seconds old.
C28_Witness ==
    /\ window # NoResult
    /\ window.prior # None
    /\ window.end_time - window.prior[1] = 30 * 60 - 1
    /\ window.start_time = window.end_time - 30 * 60

\* An evaluation found a prior timestamp later than the current time.
C28_WitnessClockSetBack ==
    /\ window # NoResult
    /\ window.prior # None
    /\ window.prior[1] > window.end_time

\* C29: an evaluation that finds a prior timestamp at least 30 minutes
\* before end_time starts its window at that timestamp, or 24 hours before
\* end_time when the timestamp is more than 24 hours old.
C29_ResumeWindow ==
    (/\ window # NoResult
     /\ window.prior # None
     /\ window.end_time - window.prior[1] >= 30 * 60) =>
        window.start_time =
            IF window.end_time - window.prior[1] > 24 * 60 * 60
            THEN window.end_time - 24 * 60 * 60
            ELSE window.prior[1]

\* An evaluation resumed from a prior timestamp one hour old (two steps of
\* 30 minutes with a failed evaluation in between).
C29_Witness ==
    /\ window # NoResult
    /\ window.prior # None
    /\ window.end_time - window.prior[1] = 60 * 60
    /\ window.start_time = window.prior[1]

\* C23: an evaluation whose pool query returned and in which the price
\* provider gave no price or a zero price, or the difficulty provider gave
\* a zero difficulty, completes: it is not a failed cycle, and
\* last_evaluation_timestamp is its end_time.
C23_DegenerateInputsComplete ==
    (eval_result # NoResult /\ eval_result.degenerate # "none") =>
        /\ eval_result.kind = "ok"
        /\ last_evaluation_timestamp = Some(window.end_time)

\* The part of C23 about the price: with no price or a zero price and a
\* non-zero difficulty the evaluation completes.
C23_PriceFallbackCompletes ==
    (eval_result # NoResult /\ eval_result.degenerate = "price") =>
        /\ eval_result.kind = "ok"
        /\ last_evaluation_timestamp = Some(window.end_time)

-----------------------------------------------------------------------------
(* PoolClient: ProxyPoolAPI.get_workers_timerange (core/pool/proxy/api.py  *)
(* lines 141-195) and ProxyPool.get_miner_contributions_timerange          *)
(* (core/pool/proxy/pool.py lines 44-63), followed by the evaluation that  *)
(* made the query.                                                         *)

\* max_tries of the backoff decorator (api.py line 144).
MaxTries == 5

\* The cap on the tries counter of the model; the decorator stops earlier.
MaxAttempts == 6

\* The exceptions the backoff decorator retries on (api.py line 143).
RetryableErrors == {"RateLimitException", "RequestError", "HTTPStatusError"}

\* Exceptions of one try that the decorator lets through at once: a body
\* that is not JSON, or one that is not a JSON object.
OtherErrors == {"JSONDecodeError", "AttributeError"}

\* A decorator that retries for ever.
GivesUpNever(tries) == FALSE

\* backoff.on_exception: the exception escapes once max_tries tries failed.
GivesUp(tries) == tries >= MaxTries

\* _worker_name_to_worker_id (api.py lines 42-48): split(".", maxsplit=1);
\* a name without a period is kept, otherwise what follows the first
\* period is.
WorkerNameToWorkerId(worker_name) ==
    IF Len(worker_name) = 1 THEN worker_name ELSE Tail(worker_name)

\* Every worker name the proxy may report, in the order its JSON object
\* lists them.
ApiWorkerOrder ==
    << <<"idA">>, <<"idA", "rig1">>, <<"acct", "idA">>, <<"workers">> >>

ApiWorkerNames == {ApiWorkerOrder[k] : k \in 1..Len(ApiWorkerOrder)}

\* api.py lines 191-193: the result dict, filled in the order of the body.
RECURSIVE ConvertWorkers(_, _)
ConvertWorkers(workers, k) ==
    IF k = 0 THEN EmptyDict
    ELSE LET rest == ConvertWorkers(workers, k - 1)
             worker_id == ApiWorkerOrder[k]
         IN IF worker_id \in DOMAIN workers
            THEN Put(rest, WorkerNameToWorkerId(worker_id), workers[worker_id])
            ELSE rest

\* api.py line 189: the workers of the body's "btc" section.
BodyWorkers(data) == Get(Get(data, "btc", EmptyDict), "workers", EmptyDict)

\* get_workers_timerange on a body that parsed (api.py lines 168-195).
GetWorkersTimerange(data) ==
    ConvertWorkers(BodyWorkers(data), Len(ApiWorkerOrder))

\* A dict with string keys as a dict keyed by worker ids (token sequences).
KeyedByWorkerId(d) == [w \in {<<f>> : f \in DOMAIN d} |-> d[w[1]]]

\* pool.py lines 58-63: 'result.get("workers", {})' on the dict
\* get_workers_timerange returned.
GetMinerContributionsTimerange(api_returned) ==
    KeyedByWorkerId(Get(api_returned, <<"workers">>, EmptyDict))

\* A call that returned a value, and one that raised an exception.
ReturnedValue(value) == [kind |-> "returned", value |-> value]
RaisedError(error) == [kind |-> "raised", error |-> error]

\* Bodies the proxy may serve: no section, a "litecoin" section, a "btc"
\* section, or both sections with the same workers.
ApiRecords == {FullRecord, [share_value |-> 0, hashrate |-> 1, shares |-> 1]}
ApiWorkerDicts ==
    UNION {[names -> ApiRecords] :
              names \in {w \in SUBSET ApiWorkerNames : Cardinality(w) <= 2}}
ApiBodies ==
    {EmptyDict}
    \cup {[litecoin |-> [workers |-> ws]] : ws \in ApiWorkerDicts}
    \cup {[btc |-> [workers |-> ws]] : ws \in ApiWorkerDicts}
    \cup {[litecoin |-> [workers |-> ws], btc |-> [workers |-> ws]] :
             ws \in ApiWorkerDicts}

InitPool ==
    /\ hotkeys = <<"idA", "idB">>
    /\ MIdle
    /\ scores = Zeros(Len(hotkeys))
    /\ last_update = 0
    /\ current_block = 0
    /\ burn_uid = 0
    /\ payout_factor = ROne
    /\ swpc = "idle"
    /\ weights = <<>>
    /\ salt = 0
    /\ chain_calls = <<>>
    /\ result = NoResult
    /\ entry = NoResult
    /\ last_evaluation_timestamp \in {None, Some(StartClock - HourSeconds)}
    /\ clock = StartClock
    /\ window = NoResult
    /\ evals = 0
    /\ eval_result = NoResult
    /\ RIdle
    /\ ppc = "request"
    /\ api_data \in ApiBodies
    /\ api_tries = 0
    /\ api_result = NoResult
    /\ pool_result = NoResult
    /\ difficulty_cache = EmptyDict
    /\ difficulty_calls = 0
    /\ difficulty_call = NoResult

\* One try of get_workers_timerange that ends in an exception the decorator
\* retries on: it is retried, or the exception escapes.
ApiTryFails ==
    /\ ppc = "request"
    /\ api_tries < MaxAttempts
    /\ api_tries' = api_tries + 1
    /\ \E error \in RetryableErrors :
          IF GivesUp(api_tries + 1)
          THEN /\ api_result' = RaisedError(error)
               /\ ppc' = "api_done"
          ELSE UNCHANGED <<api_result, ppc>>
    /\ UNCHANGED <<api_data, pool_result, difficulty_cache, difficulty_calls,
                   difficulty_call>>
    /\ UNCHANGED <<mvars, wvars, evars, rvars>>

\* One try that ends in an exception the decorator does not retry on.
ApiTryRaises ==
    /\ ppc = "request"
    /\ api_tries < MaxAttempts
    /\ api_tries' = api_tries + 1
    /\ \E error \in OtherErrors : api_result' = RaisedError(error)
    /\ ppc' = "api_done"
    /\ UNCHANGED <<api_data, pool_result, difficulty_cache, difficulty_calls,
                   difficulty_call>>
    /\ UNCHANGED <<mvars, wvars, evars, rvars>>

\* One try that gets the body and returns the converted dict.
ApiTryReturns ==
    /\ ppc = "request"
    /\ api_tries < MaxAttempts
    /\ api_tries' = api_tries + 1
    /\ api_result' = ReturnedValue(GetWorkersTimerange(api_data))
    /\ ppc' = "api_done"
    /\ UNCHANGED <<api_data, pool_result, difficulty_cache, difficulty_calls,
                   difficulty_call>>
    /\ UNCHANGED <<mvars, wvars, evars, rvars>>

\* pool.py lines 58-63; an exception of the API call passes through.
PoolReturn ==
    /\ ppc = "api_done"
    /\ pool_result' =
           IF api_result.kind = "raised" THEN api_result
           ELSE ReturnedValue(GetMinerContributionsTimerange(api_result.value))
    /\ ppc' = "pool_done"
    /\ UNCHANGED <<api_data, api_tries, api_result, difficulty_cache,
                   difficulty_calls, difficulty_call>>
    /\ UNCHANGED <<mvars, wvars, evars, rvars>>

\* The rest of the evaluate_miner_share_value call that made the query
\* (validator.py lines 172-231).
PoolEvaluate ==
    /\ ppc = "pool_done"
    /\ \E price \in Prices, difficulty \in Difficulties :
          LET pool == IF pool_result.kind = "raised"
                      THEN [raised |-> TRUE, workers |-> EmptyDict]
                      ELSE [raised |-> FALSE, workers |-> pool_result.value]
              w == ComputeWindow(last_evaluation_timestamp, clock)
              out == EvaluateCoin(scores, hotkeys, block_at_registration,
                                  last_evaluation_timestamp, clock,
                                  pool, price, difficulty)
          IN /\ window' = [start_time |-> w.start_time,
                           end_time |-> w.end_time,
                           prior |-> last_evaluation_timestamp]
             /\ scores' = out.scores
             /\ last_evaluation_timestamp' = out.last
             /\ eval_result' = [kind |-> IF out.raised THEN "failed" ELSE "ok"]
    /\ evals' = evals + 1
    /\ ppc' = "evaluated"
    /\ UNCHANGED <<api_data, api_tries, api_result, pool_result,
                   difficulty_cache, difficulty_calls, difficulty_call>>
    /\ UNCHANGED <<last_update, current_block, burn_uid, payout_factor, swpc,
                   weights, salt, chain_calls, result, entry, clock>>
    /\ UNCHANGED <<mvars, rvars>>

NextPool ==
    \/ ApiTryFails
    \/ ApiTryRaises
    \/ ApiTryReturns
    \/ PoolReturn
    \/ PoolEvaluate

SpecPool == InitPool /\ [][NextPool]_vars

-----------------------------------------------------------------------------
(* Properties of the pool client.                                          *)

\* C24: the snapshot get_miner_contributions_timerange returns holds, for
\* every worker of the body the proxy served, an entry under the name the
\* proxy reported with the record it reported.
C24_SnapshotKeepsReportedWorkers ==
    pool_result.kind = "returned" =>
        \A name \in DOMAIN BodyWorkers(api_data) :
            /\ name \in DOMAIN pool_result.value
            /\ pool_result.value[name] = BodyWorkers(api_data)[name]

\* C25: get_workers_timerange is tried at most 5 times; an exception the
\* decorator retries on escapes after exactly 5 tries; and the evaluation
\* whose pool query raised has ended as a failed cycle (it returned, with
\* the scores and last_evaluation_timestamp it started with).
C25_BoundedTriesThenFailedCycle ==
    /\ api_tries <= 5
    /\ (api_result.kind = "raised" /\ api_result.error \in RetryableErrors) =>
           api_tries = 5
    /\ (ppc = "evaluated" /\ pool_result.kind = "raised") =>
           /\ eval_result.kind = "failed"
           /\ last_evaluation_timestamp = window.prior
           /\ scores = Zeros(Len(hotkeys))

\* The pool query gave up after five failed tries and the evaluation ended
\* as a failed cycle with a prior timestamp in place.
C25_Witness ==
    /\ ppc = "evaluated"
    /\ api_tries = 5
    /\ api_result.kind = "raised"
    /\ eval_result.kind = "failed"
    /\ last_evaluation_timestamp # None

-----------------------------------------------------------------------------
(* Difficulty provider: _fetch_difficulty and get_current_difficulty       *)
(* (core/pricing/network_stats.py lines 33-82) behind the TTL cache of     *)
(* lines 16 and 62.                                                        *)

\* The number of get_current_difficulty calls followed.
MaxDifficultyCalls == 3

\* Lines 19-22.  The constants are Python ints; a number is a number here.
FALLBACK_DIFFICULTIES ==
    [litecoin |-> RInt(95827342), dogecoin |-> RInt(47143814)]

\* The coins of DIFFICULTY_APIS, lines 27-30.
DIFFICULTY_APIS == {"litecoin", "dogecoin"}

\* Coin names a caller may pass.
CoinNames == {"litecoin", "LITECOIN", "dogecoin", "bitcoin"}

\* str.lower() on the coin names.
Lower(coin) == IF coin = "LITECOIN" THEN "litecoin" ELSE coin

\* What the HTTP request of line 50 and the parsing of lines 53-54 may do:
\* answer 200 with a body that carries a difficulty, time out, fail to
\* connect, answer another status, or answer 200 with a body that lacks the
\* field or is not JSON.
FetchOutcomes ==
    {[kind |-> "ok", difficulty |-> d] : d \in Difficulties}
    \cup {[kind |-> k] :
             k \in {"Timeout", "ConnectionError", "status", "malformed"}}

\* _fetch_difficulty, lines 46-59.
FetchDifficulty(coin, outcome) ==
    IF Lower(coin) \notin DIFFICULTY_APIS
    THEN RaisedError("Exception")
    ELSE IF outcome.kind = "ok" THEN ReturnedValue(outcome.difficulty)
    ELSE IF outcome.kind \in {"Timeout", "ConnectionError"}
    THEN RaisedError(outcome.kind)
    ELSE RaisedError("Exception")

\* A body without the 'except Exception' clause of line 77: only the
\* timeout is caught.
GetCurrentDifficultyCatchesTimeoutOnly(coin, outcome) ==
    LET fetched == FetchDifficulty(coin, outcome)
    IN IF fetched.kind = "returned" \/ fetched.error # "Timeout"
       THEN fetched
       ELSE ReturnedValue(Get(FALLBACK_DIFFICULTIES, Lower(coin),
                              FALLBACK_DIFFICULTIES["litecoin"]))

\* The body of get_current_difficulty, lines 73-82: every exception of the
\* fetch is caught and the fallback returned.
GetCurrentDifficulty(coin, outcome) ==
    LET fetched == FetchDifficulty(coin, outcome)
    IN IF fetched.kind = "returned"
       THEN fetched
       ELSE ReturnedValue(Get(FALLBACK_DIFFICULTIES, Lower(coin),
                              FALLBACK_DIFFICULTIES["litecoin"]))

InitDifficulty ==
    /\ hotkeys = <<>>
    /\ MIdle
    /\ WIdle
    /\ EIdle
    /\ RIdle
    /\ ppc = "off"
    /\ api_data = EmptyDict
    /\ api_tries = 0
    /\ api_result = NoResult
    /\ pool_result = NoResult
    /\ difficulty_cache = EmptyDict
    /\ difficulty_calls = 0
    /\ difficulty_call = NoResult

\* A call whose argument is in the cache: the cached value is returned and
\* the body does not run (line 62).
DifficultyCallCached ==
    /\ difficulty_calls < MaxDifficultyCalls
    /\ \E coin \in DOMAIN difficulty_cache :
          difficulty_call' = [coin |-> coin, fetched |-> FALSE,
                              outcome |-> NoResult,
                              result |-> ReturnedValue(difficulty_cache[coin])]
    /\ difficulty_calls' = difficulty_calls + 1
    /\ UNCHANGED <<ppc, api_data, api_tries, api_result, pool_result,
                   difficulty_cache>>
    /\ UNCHANGED <<mvars, wvars, evars, rvars>>

\* A call whose argument is not in the cache: the body runs, and what it
\* returns is cached; an exception is not.
DifficultyCallFetches ==
    /\ difficulty_calls < MaxDifficultyCalls
    /\ \E coin \in CoinNames \ DOMAIN difficulty_cache,
          outcome \in FetchOutcomes :
          LET res == GetCurrentDifficulty(coin, outcome)
          IN /\ difficulty_call' = [coin |-> coin, fetched |-> TRUE,
                                    outcome |-> outcome, result |-> res]
             /\ difficulty_cache' =
                    IF res.kind = "returned"
                    THEN Put(difficulty_cache, coin, res.value)
                    ELSE difficulty_cache
    /\ difficulty_calls' = difficulty_calls + 1
    /\ UNCHANGED <<ppc, api_data, api_tries, api_result, pool_result>>
    /\ UNCHANGED <<mvars, wvars, evars, rvars>>

\* An entry of the cache reaches its time to live (line 15).
DifficultyCacheExpires ==
    /\ \E coin \in DOMAIN difficulty_cache :
          difficulty_cache' = Del(difficulty_cache, coin)
    /\ UNCHANGED <<ppc, api_data, api_tries, api_result, pool_result,
                   difficulty_calls, difficulty_call>>
    /\ UNCHANGED <<mvars, wvars, evars, rvars>>

NextDifficulty ==
    \/ DifficultyCallCached
    \/ DifficultyCallFetches
    \/ DifficultyCacheExpires

SpecDifficulty == InitDifficulty /\ [][NextDifficulty]_vars

-----------------------------------------------------------------------------
(* Properties of the difficulty provider.                                  *)

\* C26: a get_current_difficulty call returns and does not raise; when its
\* body ran, the value is the fetched difficulty if the coin is supported
\* and the fetch succeeded, and otherwise (time-out, connection error,
\* status other than 200, malformed body, unsupported coin) the fallback
\* constant of the coin, litecoin's for a coin without one.
C26_DifficultyNeverRaises ==
    difficulty_call # NoResult =>
        /\ difficulty_call.result.kind = "returned"
        /\ difficulty_call.fetched =>
               difficulty_call.result.value =
                   IF /\ difficulty_call.outcome.kind = "ok"
                      /\ difficulty_call.coin \in
                             {"litecoin", "LITECOIN", "dogecoin"}
                   THEN difficulty_call.outcome.difficulty
                   ELSE IF difficulty_call.coin = "dogecoin"
                        THEN RInt(47143814)
                        ELSE RInt(95827342)

\* A call for an unsupported coin got litecoin's fallback, after a call for
\* dogecoin whose request failed with an HTTP status.
C26_Witness ==
    /\ difficulty_call # NoResult
    /\ difficulty_call.fetched
    /\ difficulty_call.coin = "bitcoin"
    /\ difficulty_call.result = ReturnedValue(RInt(95827342))
    /\ "dogecoin" \in DOMAIN difficulty_cache
    /\ difficulty_cache["dogecoin"] = RInt(47143814)

-----------------------------------------------------------------------------
(* Further properties of get_metrics_timerange.                            *)

\* The worker ids of the snapshot that belong to an identity: the id equal
\* to its key and the ids whose text before the first "." is its key.
WorkersOf(hotkey) ==
    {w \in DOMAIN all_workers : w = <<hotkey>> \/ (Len(w) > 1 /\ w[1] = hotkey)}

\* C31: the list returned has one metric per identity, in the order of the
\* identity list; an identity none of whose worker ids is in the snapshot
\* has hashrate, shares and share_value 0; with an empty snapshot no
\* identity is mapped and every metric is such a zero metric.
C31_OneMetricPerIdentity ==
    mpc = "returned" =>
        /\ Len(metrics) = Len(hotkeys)
        /\ \A k \in 1..Len(hotkeys) :
              /\ metrics[k].hotkey = hotkeys[k]
              /\ WorkersOf(hotkeys[k]) = {} =>
                     /\ hotkeys[k] \notin DOMAIN hotkeys_to_workers
                     /\ metrics[k].hashrate = 0
                     /\ metrics[k].shares = 0
                     /\ metrics[k].share_value = 0
        /\ all_workers = EmptyDict => hotkeys_to_workers = EmptyDict

\* Two identities were given, the first without any worker in a snapshot
\* that holds a paying worker of the second, and the metrics have been
\* returned.
C31_Witness ==
    /\ mpc = "returned"
    /\ Len(hotkeys) = 2
    /\ WorkersOf(hotkeys[1]) = {}
    /\ metrics[1].share_value = 0
    /\ metrics[2].share_value > 0

\* The call returned for two identities and an empty snapshot.
C31_WitnessEmptySnapshot ==
    /\ mpc = "returned"
    /\ Len(hotkeys) = 2
    /\ all_workers = EmptyDict
    /\ Len(metrics) = 2

\* An identity whose key is a worker id of the snapshot and also the prefix
\* of other worker ids.
ExactAndPrefixed(hotkey) ==
    /\ <<hotkey>> \in DOMAIN all_workers
    /\ \E w \in DOMAIN all_workers : Len(w) > 1 /\ w[1] = hotkey

\* C32: once the map is built, the worker list of an identity that is in
\* the snapshot both as an exact worker id and as a prefix holds the exact
\* worker and every prefixed worker, each once, and the metric returned for
\* it is the sum over all of them.
C32_ExactAndPrefixedAllIncluded ==
    \A k \in 1..Len(hotkeys) :
        ExactAndPrefixed(hotkeys[k]) =>
            /\ mpc \in {"aggregate", "returned"} =>
                   /\ hotkeys[k] \in DOMAIN hotkeys_to_workers
                   /\ NoRepeat(hotkeys_to_workers[hotkeys[k]])
                   /\ Range(hotkeys_to_workers[hotkeys[k]]) =
                          WorkersOf(hotkeys[k])
            /\ mpc = "returned" =>
                   /\ metrics[k].share_value =
                          SetSum(WorkersOf(hotkeys[k]), all_workers,
                                 "share_value")
                   /\ metrics[k].hashrate =
                          SetSum(WorkersOf(hotkeys[k]), all_workers, "hashrate")
                   /\ metrics[k].shares =
                          SetSum(WorkersOf(hotkeys[k]), all_workers, "shares")

\* idA is in the snapshot as "idA", "idA.rig1" and "idA.rig2", each paying
\* 5, and its metric of 15 has been returned.
C32_Witness ==
    /\ mpc = "returned"
    /\ \E k \in 1..Len(hotkeys) :
          /\ hotkeys[k] = "idA"
          /\ WorkersOf("idA") = {<<"idA">>, <<"idA", "rig1">>, <<"idA", "rig2">>}
          /\ metrics[k].share_value = 15

-----------------------------------------------------------------------------
(* ScoreAggregator: one evaluate_miner_share_value call (validator.py      *)
(* lines 142-231) on a given snapshot, with the price and the difficulty   *)
(* it was given kept for inspection.                                       *)

\* Snapshots of the workers of idA and idB.
ScoreWorkerIds == {<<"idA">>, <<"idA", "rig1">>, <<"idB">>, <<"idB", "rig1">>}
ScoreSnapshots ==
    UNION {[ids -> WorkerRecords] :
              ids \in {w \in SUBSET ScoreWorkerIds :
                          Cardinality(w) <= MaxWorkers}}

\* Scores the call may start from.
ScoreVectors == {<<RZero, RZero>>, <<RInt(10), Rat(1, 2)>>}

InitScore ==
    /\ hotkeys = <<"idA", "idB">>
    /\ block_at_registration = <<1, 2>>
    /\ all_workers \in ScoreSnapshots
    /\ hotkeys_to_workers = EmptyDict
    /\ worker_ids_to_hotkey_idx = EmptyDict
    /\ metrics = <<>>
    /\ mpc = "idle"
    /\ i = 0
    /\ scores \in ScoreVectors
    /\ last_update = 0
    /\ current_block = 0
    /\ burn_uid = 0
    /\ payout_factor = ROne
    /\ swpc = "idle"
    /\ weights = <<>>
    /\ salt = 0
    /\ chain_calls = <<>>
    /\ result = NoResult
    /\ entry = NoResult
    /\ last_evaluation_timestamp = None
    /\ clock = StartClock
    /\ window = NoResult
    /\ evals = 0
    /\ eval_result = NoResult
    /\ RIdle
    /\ PIdle

\* The call, with the pool returning the snapshot all_workers or raising.
ScoreEvaluate ==
    /\ evals = 0
    /\ \E price \in Prices, difficulty \in Difficulties,
          pool_raised \in BOOLEAN :
          LET pool == [raised |-> pool_raised, workers |-> all_workers]
              w == ComputeWindow(last_evaluation_timestamp, clock)
              out == EvaluateCoin(scores, hotkeys, block_at_registration,
                                  last_evaluation_timestamp, clock,
                                  pool, price, difficulty)
          IN /\ window' = [start_time |-> w.start_time,
                           end_time |-> w.end_time,
                           prior |-> last_evaluation_timestamp]
             /\ metrics' = GetMetricsTimerange(hotkeys, block_at_registration,
                                               all_workers)
             /\ scores' = out.scores
             /\ last_evaluation_timestamp' = out.last
             /\ eval_result' = [kind |-> IF out.raised THEN "failed" ELSE "ok",
                                pool_raised |-> pool_raised,
                                price |-> price,
                                difficulty |-> difficulty,
                                before |-> scores]
    /\ evals' = evals + 1
    /\ UNCHANGED <<hotkeys, block_at_registration, all_workers,
                   hotkeys_to_workers, worker_ids_to_hotkey_idx, mpc, i>>
    /\ UNCHANGED <<last_update, current_block, burn_uid, payout_factor, swpc,
                   weights, salt, chain_calls, result, entry, clock>>
    /\ UNCHANGED <<rvars, pvars>>

NextScore == ScoreEvaluate

SpecScore == InitScore /\ [][NextScore]_vars

-----------------------------------------------------------------------------
(* Properties of the score aggregation.                                    *)

\* The raw share value the snapshot reports for an identity: the sum over
\* its workers (0 for a worker without the field).
RawShareValue(hotkey) == SetSum(WorkersOf(hotkey), all_workers, "share_value")

\* The price the evaluation converts with: the provider's, or the fallback
\* when the provider gave none or zero.
UsedPrice(price) ==
    IF price = None \/ price = Some(RZero) THEN RInt(75) ELSE price[1]

\* C33: for a metric whose share value is zero (the snapshot reports zero
\* or no share value for the identity), get_share_value_fiat returns 0 and
\* does not raise for the price and the difficulty of the evaluation, a
\* zero difficulty included, and the evaluation leaves the identity's score
\* where it was.
C33_ZeroShareValueAddsNothing ==
    eval_result # NoResult =>
        \A k \in 1..Len(hotkeys) :
            RawShareValue(hotkeys[k]) = 0 =>
                /\ metrics[k].share_value = 0
                /\ GetShareValueFiat(metrics[k], UsedPrice(eval_result.price),
                                     eval_result.difficulty)
                       = [raised |-> FALSE, value |-> RZero]
                /\ scores[k] = eval_result.before[k]

\* An evaluation with a zero difficulty went through because no identity
\* had a share value, with a worker of idA in the snapshot.
C33_Witness ==
    /\ eval_result # NoResult
    /\ eval_result.kind = "ok"
    /\ eval_result.difficulty = RZero
    /\ WorkersOf("idA") # {}
    /\ \A k \in 1..Len(hotkeys) : RawShareValue(hotkeys[k]) = 0

C38_FailedEvaluationKeepsScores ==
    (eval_result # NoResult /\ eval_result.kind = "failed") =>
        scores = eval_result.before

\* An evaluation failed because the pool query raised, with non-zero
\* scores in place.
C38_WitnessPoolRaised ==
    /\ eval_result # NoResult
    /\ eval_result.pool_raised
    /\ scores = <<RInt(10), Rat(1, 2)>>

\* An evaluation failed on idB's share value after idA's metric, which has
\* no share value, had been processed, with non-zero scores in place.
C38_Witness ==
    /\ eval_result # NoResult
    /\ eval_result.kind = "failed"
    /\ ~eval_result.pool_raised
    /\ WorkersOf("idA") # {}
    /\ RawShareValue("idA") = 0
    /\ RawShareValue("idB") > 0
    /\ scores = <<RInt(10), Rat(1, 2)>>

\* ------------------------------------------------------------------------
\* The submission test of run (lines 552-563)
\* ------------------------------------------------------------------------

\* C40: in a cycle of run set_weights is attempted, and the chain is called,
\* only when the chain reported blocks_since_last_update >= 3 x tempo;
\* otherwise the cycle ends with save_state, with no chain call, and with
\* the scores the evaluation left, which are not reset.
C40_SubmissionOnlyWhenDue ==
    [][ /\ (rpc' = "set_weights" /\ rpc # "set_weights")
           => blocks_since_last_weights' >= 3 * tempo
        /\ (chain_calls' # chain_calls /\ chain_calls' # <<>>)
           => /\ rpc = "set_weights"
              /\ blocks_since_last_weights >= 3 * tempo
        /\ (rpc = "evaluated" /\ rpc' = "loop")
           => /\ blocks_since_last_weights' < 3 * tempo
              /\ chain_calls' = <<>>
              /\ scores' = scores
              /\ last_update' = last_update
              /\ stored' # None
              /\ stored'[1].scores = scores
      ]_vars

\* Two cycles without a submission: the second one ended with non-zero
\* scores, saved as they are, and no chain call.
C40_Witness ==
    /\ rpc = "loop"
    /\ cycles = 2
    /\ restarts = 0
    /\ blocks_since_last_weights = 3 * tempo - 1
    /\ chain_calls = <<>>
    /\ last_update = 0
    /\ RSum(scores) # RZero
    /\ stored # None
    /\ stored[1].scores = scores

\* ------------------------------------------------------------------------
\* The order of the phases of one cycle of run (lines 544-580)
\* ------------------------------------------------------------------------

\* The weight vector set_weights computes from the scores in memory, for
\* the value to distribute it found.
WeightsFromScores(value_to_dist) ==
    SetWeightsVector(scores, Len(hotkeys), value_to_dist, payout_factor,
                     burn_uid).weights

\* C35: a cycle of run goes resync and evaluation, then distribution and
\* submission, then persistence, in this order: a cycle begins only at the
\* top of the loop, with no save and no chain call in its evaluation;
\* set_weights is entered only after the evaluation of the same cycle; the
\* scores are not touched between that evaluation and the distribution; the
\* weights sent to the chain are the ones computed from these scores; and
\* the state is saved only as the last step of a cycle, after a submission
\* that succeeded or in a cycle without one.  Outside a cycle there is no
\* chain call and no save.
C35_PhasesInOrder ==
    [][ IF rpc = "loop"
        THEN /\ rpc' # "set_weights"
             /\ cycles' # cycles => rpc' = "evaluated"
             /\ rpc' = "evaluated"
                => (stored' = stored /\ chain_calls' = chain_calls)
        ELSE IF rpc = "evaluated"
        THEN /\ cycles' = cycles
             /\ rpc' = "set_weights"
                => (scores' = scores /\ stored' = stored /\ chain_calls' = <<>>)
             /\ rpc' = "loop"
                => /\ stored'[1].scores = scores
                   /\ scores' = scores
                   /\ chain_calls' = chain_calls
        ELSE IF rpc = "set_weights"
        THEN /\ cycles' = cycles
             /\ rpc' # "evaluated"
             /\ (swpc = "idle" /\ chain_calls' # <<>>)
                => /\ entry'.scores = scores
                   /\ weights' = WeightsFromScores(entry'.value_to_dist)
                   /\ chain_calls'[1].weights = weights'
             /\ (swpc = "waiting" /\ rpc' = "set_weights")
                => /\ weights' = weights
                   /\ chain_calls'[Len(chain_calls')].weights = weights
             /\ stored' # stored
                => /\ rpc' = "loop"
                   /\ swpc = "done"
                   /\ result = Returned(TRUE)
                   /\ stored'[1].scores = scores
                   /\ scores' = scores
        ELSE /\ cycles' = cycles
             /\ rpc' \notin {"evaluated", "set_weights"}
             /\ chain_calls' = chain_calls
             /\ stored' = stored
      ]_vars

\* A cycle that went through all the phases: the submission succeeded on
\* the chain and the state is about to be saved.
C35_Witness ==
    /\ rpc = "set_weights"
    /\ swpc = "done"
    /\ result = Returned(TRUE)
    /\ entry.calculated
    /\ chain_calls # <<>>
    /\ chain_calls[Len(chain_calls)].ok
    /\ stored = None

\* The same through the commit-reveal path: two chain calls in the cycle.
C35_WitnessCommitReveal ==
    /\ rpc = "set_weights"
    /\ swpc = "done"
    /\ result = Returned(TRUE)
    /\ Len(chain_calls) = 2
    /\ chain_calls[2].weights = chain_calls[1].weights

\* ------------------------------------------------------------------------
\* Lengths of the score list, the identity list and the weight vector
\* ------------------------------------------------------------------------

\* C36: after a restore that is not stale, from a saved state whose score
\* and identity lists have the same length, and after every successful
\* submission, the score list has one entry per identity; every weight
\* vector sent to the chain has the length of the uid list sent with it.
C36_ScoresMatchIdentities ==
    [][ /\ (/\ rpc = "start"
            /\ rpc' = "started"
            /\ restored'.kind = "restored"
            /\ Len(stored[1].scores) = Len(stored[1].hotkeys))
           => Len(scores') = Len(hotkeys')
        /\ (result' = Returned(TRUE) /\ result # Returned(TRUE))
           => /\ Len(scores') = Len(hotkeys')
              /\ hotkeys' = hotkeys
        /\ (chain_calls' # chain_calls /\ chain_calls' # <<>>)
           => LET call == chain_calls'[Len(chain_calls')]
              IN /\ Len(call.weights) = Len(call.uids)
                 /\ Len(call.uids) = Len(hotkeys)
      ]_vars

\* A restore that is not stale brought back non-zero scores.
C36_Witness ==
    /\ rpc = "started"
    /\ restored.kind = "restored"
    /\ RSum(restored.state.scores) # RZero
    /\ Len(restored.state.scores) = Len(restored.state.hotkeys)
    /\ Len(scores) = Len(hotkeys)

\* A submission of calculated weights succeeded after a restore.
C36_WitnessSubmitted ==
    /\ restarts = 1
    /\ restored.kind = "restored"
    /\ result = Returned(TRUE)
    /\ entry.calculated
    /\ Len(chain_calls[1].weights) = Len(hotkeys)
    /\ scores = Zeros(Len(hotkeys))

\* ------------------------------------------------------------------------
\* The commit-reveal status when it cannot be determined (lines 352-413)
\* ------------------------------------------------------------------------

\* C37: when neither query gives the commit-reveal status (the attribute is
\* missing, or the SDK query raised and btcli failed or did not list the
\* parameter), the status is false, nothing is raised, and set_weights makes
\* the one set_weights call of the direct path and returns its outcome.
C37_UnknownStatusGoesDirect ==
    (swpc \in {"waiting", "done"} /\ ~entry.status_found)
        => /\ ~entry.commit_reveal
           /\ swpc = "done"
           /\ result # Raised
           /\ Len(chain_calls) = 1
           /\ chain_calls[1].op = "set_weights"
           /\ chain_calls[1].salt = 0
           /\ result = Returned(chain_calls[1].ok)

\* Calculated weights went out on the direct path after both queries gave
\* no status.
C37_Witness ==
    /\ swpc = "done"
    /\ ~entry.status_found
    /\ entry.calculated
    /\ chain_calls[1].op = "set_weights"
    /\ chain_calls[1].ok
    /\ result = Returned(TRUE)

\* ------------------------------------------------------------------------
\* Windows of consecutive evaluations (lines 145-167, 222-224)
\* ------------------------------------------------------------------------

\* This step is an evaluation that completed, and an earlier one had
\* completed at most 24 hours before its end_time.
CompletedWithinDay ==
    /\ evaluated_until # None
    /\ evaluated_until' # evaluated_until
    /\ window'.end_time - evaluated_until[1] <= 24 * 60 * 60

\* C39 as stated: of two consecutive evaluations that completed at most 24
\* hours apart, the later one's window starts no later than the earlier
\* one's end_time.
C39_ConsecutiveWindowsMeet ==
    [][CompletedWithinDay => window'.start_time <= evaluated_until[1]]_vars

\* C39, amended: the same when the later evaluation starts with a
\* last_evaluation_timestamp in memory (kept since the earlier evaluation, or
\* restored from the saved state); the timestamp is then the end_time of
\* an evaluation no later than the earlier one.
C39_WindowsMeetWithTimestamp ==
    [][(CompletedWithinDay /\ window'.prior # None)
        => /\ window'.start_time <= evaluated_until[1]
           /\ window'.prior[1] <= evaluated_until[1]]_vars

\* The second of two evaluations of one run completed, two hours after the
\* first, with a window that starts at the first one's end_time.
C39_Witness ==
    /\ rpc = "evaluated"
    /\ restarts = 0
    /\ eval_result.kind = "ok"
    /\ window.prior # None
    /\ window.start_time = window.prior[1]
    /\ window.end_time - window.start_time = 2 * 60 * 60
    /\ evaluated_until = Some(window.end_time)

\* The same after a restart that restored the saved timestamp.
C39_WitnessRestored ==
    /\ rpc = "started"
    /\ restarts = 1
    /\ restored.kind = "restored"
    /\ eval_result.kind = "ok"
    /\ window.prior # None
    /\ window.start_time = window.prior[1]
    /\ evaluated_until = Some(window.end_time)


====
